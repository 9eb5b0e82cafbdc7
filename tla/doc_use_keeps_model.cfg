SPECIFICATION MCSpec
CONSTANTS
  Optional <- OptionalPlugins
  Names <- CommandNames
  Contributes <- Contributed
  CoreNames = {clear}
  FileNames = {lint, deploy, clear}
  ShellCommands = {deploy}
  ModelCommands = {lint, deploy}
  Calls <- AllCalls
  OtherPatterns = {}
  Covers <- Covered
  Sensitive = {secret}
  AllowedByDefault = {}
  dir = dir
  file = file
  secret = secret
  MaxRules = 2
  MaxSessions = 2
  NoCall = NoCall
  lint = lint
  deploy = deploy
  clear = clear
  manyPlugin = manyPlugin
  barePlugin = barePlugin
  MaxEdits = 3
  NoOne = NoOne
  User = User
  Core = Core
  MaxText = 3
  MaxFragment = 2
  MaxPieces = 3
  MaxItems = 1
  MaxTurns = 2
  p1 = p1
  p2 = p2
  small = small
  large = large
  plain = plain
  doc = "doc"
  Nothing = Nothing
  Registered <- Connectable
  Catalog <- CatalogOf
  DefaultModel <- DefaultOf
  SeesImages = {large}
  Tier <- TierOf
  Aliases <- Big
  Messages <- RoutedMessages
  RuleFiles <- RoutingFiles
  EnvModels <- NamesNothing
  Npm = {npmServer}
  Downloads = {download}
  Others = {written}
  Selections <- Batched
  npmServer = npmServer
  download = download
  written = written
  Broken = Broken
  MaxBatches = 2
  NoFile = NoFile
CHECK_DEADLOCK FALSE
INVARIANT DefaultIsOfItsProvider
