\* Two plain commands, two whose quoted texts hold pairs, the records of a system call,
\* keys in quotes, a key that looks like a variable, and socket addresses: every sequence
\* of up to four records (five of the small sets), and templates of up to six characters.
SPECIFICATION TextSpec
CONSTANTS
  Arguments <- MCArguments
  RecordSets <- MCRecordSets
  ClassOrder <- MCClassOrder
  MaxRecords <- MCMaxRecords
  RuleName <- MCRuleName
  Tags <- MCTags
  UpperCase <- MCUpperCase
  TemplatesFor <- MCTemplatesFor
INVARIANTS
  EventTypeOK
  ArgvFaithful
  NoTextLost
  EventAsArrived
  KeyShown
  AddressAsArrived
  KeyReachesArgument
