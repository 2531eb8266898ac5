SPECIFICATION LedgerSpec
CONSTANTS
  Writers = {w1, w2}
  Episode = Episode
  Version = Version
  Key1 = Key1
  Key2 = Key2
  Subjects = {Episode, Version}
  Values = {Key1, Key2, NoSid}
  NoSid = NoSid
  Event1 = Event1
  Event2 = Event2
  EventIds = {Event1, Event2}
  Requests <- PlainRequests
  MaxRows = 2
  Nil = Nil
INVARIANT AnchorNamesPosition
