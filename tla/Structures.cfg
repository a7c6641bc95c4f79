CONSTANTS
  Own = Own
  Wait = Wait
  ok = ok
  val = val
  small = small
  k1 = k1
  k2 = k2
SPECIFICATION Spec
INVARIANTS
  FramingExact
  RepliesQueued
  LimitsAct
  LoopSound
  LogFileSound
  StringsExact
  TextsAgree
  ListSound
  StartupSound
  ObjectsExact
  AnswersReadBack
  BlocksSound
  RangeSorted
PROPERTIES
  CallsAndSleeps
  ImplementsSequence
  SettingsSound
CHECK_DEADLOCK FALSE
