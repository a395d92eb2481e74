SPECIFICATION Spec
CONSTANTS
  Size = 4
  MaxStream = 6
  People = {p1, p2}
  Raw = raw
  Limit = 3
  MaxSubcodes = 2
  MaxSessions = 2
  Ends = {a, b}
  MaxKeys = 2
  MaxUnder = 2
  MaxLapses = 1
  Options <- MCOptions
  Conns = {d1, d2}
  WindowKinds <- MCKinds
  Autosorts = {0, 2}
  Labels = {c1, c2, c3}
  First = c1
  Keeping = {c1}
  MaxCalls = 2
  Functions = {g1, g2, g3}
  Texts <- MCTexts
  Weight <- MCWeight
  Manners <- MCManners
  Shells = {c1}
  Links = {l1}
  Writers = {w1, w2}
  Minute = 2
  LongIdle = 3
  MaxClock = 6
  Habits <- MCHabits
  Timers = {t1, t2}
  Delays = {0, 1}
  Wait = 2
  MaxTick = 3
  Places = {s1, s2}
  NoPlace = nowhere
  Builtins <- MCBuiltins
  Lines <- MCLines
  AliasNames = {"al", "say"}
  Scripts <- MCScripts
  MaxParms = 2
  MaxDepth = 3
  Letters = {"a"}
  Entity <- MCEntity
  Tag <- MCTag
  BufSize = 5
  Histories <- MCHistories
  Drafts <- MCDrafts
  MaxEntered = 3
  MaxPresses = 4
  Networks = {"home", "net"}
  Home = "home"
  Settings = {"autosort", "im_prefix"}
  Presets <- MCPresets
  KeyPresets <- MCKeyPresets
  Replacements <- MCReplacements
  Inputs <- MCInputs
  MaxInputs = 2
  Scenes <- MCScenes
  StackSize = 2
  Slots <- MCSlots
  Lengths = {2, 3}
  Capacity = 5
  MaxSent = 4
INVARIANTS PartsTypeOK NoAssertionFails ArriveInOrder PeersUnderstand RingsKept
PROPERTIES InTheUsersHands ScriptsCalled AwayIsTold
CHECK_DEADLOCK FALSE
