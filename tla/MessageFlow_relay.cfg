SPECIFICATION Spec
CONSTANTS
    Nothing = Nothing
    Characters <- MCCharacters
    Upper <- MCUpper
    Digits <- MCDigits
    DigitValue <- MCDigitValue
    Letters <- MCLetters
    Hex <- MCHex
    LoginChars <- MCLoginChars
    Wide = {"wide"}
    MaxLogin = 3
    MaxU8 = 20
    MaxI64 = 70
    MaxMillis = 60
    AnonymousGifter = "274598607"
    Catalogue <- MCCatalogue
    Values <- MCValues
    Fragments <- MCFragments
    MaxPieces = 4
    MaxSaid = 2
    MaxChanges = 1
    Channels <- MCChannels
INVARIANTS DeliveredAsMeant TypedWithoutOptionals SentOnUnchanged EmotesCutTheText PanicsOnlyOnDisorder
CHECK_DEADLOCK FALSE
