SPECIFICATION Spec
CONSTANTS
  NoValue = NoValue
  Icaos <- AllIcaos
  Active <- KnownIcaos
  Codes <- AllCodes
  Messages <- AllMessages
  Replies <- AllReplies
  Noisy <- NoisyMessages
  Silence <- SilentTails
  Depths = {1, 2}
  MaxErrors = 2
INVARIANTS
  NeverMistaken
  ErrorsUndone
  RepliesAttributed
  TableIsBitwise
