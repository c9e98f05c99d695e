------------------------------ MODULE HostStats -----------------------------
(***************************************************************************)
(* The CPU figure of the host feed (sampleHostStats and its helpers,       *)
(* api/orchestratorinfo.go): the busy share of the time between two        *)
(* readings of a row of /proc/stat, in uint64 arithmetic.  The row is the  *)
(* machine's; those of the cores go through the same cpuDelta.             *)
(***************************************************************************)
EXTENDS Integers

CONSTANT W   \* uint64 has the values 0 .. W - 1

VARIABLES
  kernel,    \* the row as the kernel counts it, reduced to cpuLine
  since,     \* history: the jiffies counted since the last tick
  prev,      \* the previous reading of the sampler
  prevRead,  \* history: whether that reading succeeded
  shown,     \* CPUPercent, as the fraction busy / of; 0 / 0 stands for zero
  truth      \* history: the jiffies between the last two ticks, if both were read

statVars == <<kernel, since, prev, prevRead, shown, truth>>

Line == [idle : 0 .. W - 1, total : 0 .. W - 1]
Jiffies == [busy : 0 .. W - 1, idle : 0 .. W - 1]
Fraction == [busy : 0 .. W - 1, of : 0 .. W - 1]
ZeroLine == [idle |-> 0, total |-> 0]
NoJiffies == [busy |-> 0, idle |-> 0]

\* Addition and subtraction of uint64 wrap around.
Plus(a, b) == IF a + b < W THEN a + b ELSE (a + b) - W
Minus(a, b) == IF a >= b THEN a - b ELSE (a - b) + W

cpuDelta(p, c) ==
  LET dt == Minus(c.total, p.total)
  IN  [busy |-> IF dt = 0 THEN 0 ELSE Minus(dt, Minus(c.idle, p.idle)), of |-> dt]

\* The sampler reads once before its first tick.
StatInit ==
  /\ kernel \in Line /\ prevRead \in BOOLEAN
  /\ prev = IF prevRead THEN kernel ELSE ZeroLine
  /\ since = NoJiffies
  /\ shown = [busy |-> 0, of |-> 0] /\ truth = NoJiffies

\* The kernel accounts busy and idle jiffies; its counters wrap around as well, but not
\* within the time between two ticks.
Run(busy, idle) ==
  /\ since.busy + since.idle + busy + idle < W
  /\ kernel' = [idle |-> Plus(kernel.idle, idle), total |-> Plus(kernel.total, busy + idle)]
  /\ since' = [busy |-> since.busy + busy, idle |-> since.idle + idle]
  /\ UNCHANGED <<prev, prevRead, shown, truth>>

\* A tick of the sampler.  A row that cannot be read is a row of zeros, which is also
\* what the next tick compares with.
Sample(read) ==
  LET cur == IF read THEN kernel ELSE ZeroLine
  IN  /\ shown' = cpuDelta(prev, cur)
      /\ truth' = IF read /\ prevRead THEN since ELSE NoJiffies
      /\ prev' = cur /\ prevRead' = read
      /\ since' = NoJiffies
      /\ UNCHANGED kernel

StatNext ==
  \/ \E busy, idle \in 0 .. W - 1 : Run(busy, idle)
  \/ \E read \in BOOLEAN : Sample(read)

StatSpec == StatInit /\ [][StatNext]_statVars

\* The share shown between two ticks that were both read is the machine's, counters that
\* wrapped around in between included: in particular at most the whole.
ShownIsTrue ==
  truth # NoJiffies => shown = [busy |-> truth.busy, of |-> truth.busy + truth.idle]

\* cpuDelta's comment, "the busy fraction between two cumulative readings": TLC refutes
\* it for a reading that failed (see the README).
ShownIsAFraction == shown.busy <= shown.of

\* The inductive invariant: what the kernel counted since the previous reading.
SampleInv ==
  /\ kernel \in Line /\ prev \in Line /\ since \in Jiffies /\ truth \in Jiffies
  /\ prevRead \in BOOLEAN
  /\ since.busy + since.idle < W
  /\ prevRead => /\ kernel.idle = Plus(prev.idle, since.idle)
                 /\ kernel.total = Plus(prev.total, since.busy + since.idle)
  /\ ShownIsTrue
=============================================================================
