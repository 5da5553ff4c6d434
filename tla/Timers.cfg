\* Two timers; a clock that ends at 3, beyond the range of int.
SPECIFICATION FairSpec
CONSTANTS
  Timers = {t1, t2}
  MaxTime = 3
  MaxInt = 2
  Timeouts = {0, 1, 3}
  Repeats = {0, 1}
INVARIANTS TypeOK OneHome NoOversleep
PROPERTIES FiresWhenDue TimerFires LoopPolls CloseFinishes
