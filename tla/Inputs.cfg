CONSTANTS
  NULL = NULL
  dictionary_hash <- Hash
  DICTMINSZ = 1
  Files <- AllFiles
  ASCIILINESZ = 14
  Lower <- Lowered
  Initial <- First
  OneChar <- OneCharWords
  strtol <- Number
  Means <- Meaning
  Forms <- AllForms
  Letters = {"n", "w", "x"}
  Decode <- Escaped
  Requests <- AllRequests
  Headers <- HeadOf
  SessionUser <- UserOf
  Listed <- Users
  UsersFiles <- AllUsersFiles
  LoginForms <- AllLoginForms
  Cookies <- AllCookies
  Alnum <- LettersAndDigits
  BufLen = 3
  Heads <- AllHeads
  MAX_HTTP_HEADERS = 3
  NameStarts <- Begins
SPECIFICATION InputsSpec
INVARIANT NothingLost
INVARIANT FileIsSaved
INVARIANT SettingsAsWritten
INVARIANT AlbumAsSent
INVARIANT SignInAsListed
INVARIANT HeadAsSent
PROPERTY ImplementsMap
PROPERTY ReadersReturn
CHECK_DEADLOCK FALSE
