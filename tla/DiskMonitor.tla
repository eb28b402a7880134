----------------------------- MODULE DiskMonitor -----------------------------
(***************************************************************************)
(* The disk monitor: UpdateOnce reads the lines of /proc/diskstats, which  *)
(* count what each disk has done since it was attached, and turns them     *)
(* into rates over the time that the wall clock shows between two rounds.  *)
(* Disks work while it reads, are detached and attached again, and the     *)
(* clock is stepped.                                                       *)
(*                                                                         *)
(* A read request moves one sector and takes two ms, a write request moves *)
(* three and takes four: enough to tell the columns of a line apart.  A    *)
(* u64 counter does not overflow; a difference of two is taken modulo      *)
(* DiskWrap.  The clock is in units of the sleep between two rounds; a     *)
(* rate is kept as its numerator and its interval.                         *)
(***************************************************************************)
EXTENDS Integers, Sequences, FiniteSets

CONSTANTS
  Disks,        \* the names in /proc/diskstats
  Virtual,      \* those that begin with "loop" or "ram"
  DiskWrap,     \* 2^64
  MaxRequests,  \* bound on the requests of each disk while it is attached
  MaxClock      \* bound on the wall clock

ASSUME DisksAssumption == Virtual \subseteq Disks
ASSUME DiskBoundsAssumption ==
  DiskWrap \in Nat \ {0} /\ MaxRequests \in [Disks -> Nat] /\ MaxClock \in Nat \ {0}
ASSUME NoOverflowAssumption == \A d \in Disks : MaxRequests[d] < DiskWrap

VARIABLES
  requests,      \* what each disk has done since it was attached
  attached_disks,
  clock,         \* time(nullptr)
  now,           \* the local variable of UpdateOnce
  unread_disks,  \* the disks whose line this UpdateOnce has still to read
  last_samples,  \* the previous sample by name
  last_time,     \* the time of the previous sample by name
  disk_info,     \* the entries of this round's report
  since          \* history: what happened since the previous line of each disk: reads
                 \*   (unless it restarted), sleeps (unless the clock was stepped)

diskKernel == <<requests, attached_disks, clock>>
diskVars == <<diskKernel, now, unread_disks, last_samples, last_time, disk_info, since>>

NoRequests == [reads |-> 0, writes |-> 0]
Nothing == [reads |-> 0, slept |-> 0, restarted |-> FALSE, stepped |-> FALSE, back |-> FALSE]
NoEntry == [n \in {} |-> 0]

\* The columns of a line after the name.  No requests are merged.
Line(d) ==
  LET r == requests[d].reads
      w == requests[d].writes
  IN  <<r, 0, r, 2 * r, w, 0, 3 * w, 4 * w, 0, 2 * r + 4 * w, 2 * r + 4 * w>>

\* The columns that UpdateOnce takes a line to have.
DiskSample == <<"reads", "writes", "sectors_read", "sectors_written", "read_time_ms",
                "write_time_ms", "io_in_progress", "io_time_ms", "weighted_io_time_ms">>

SampleNames == {DiskSample[n] : n \in 1..9}

Parse(line) ==
  [f \in SampleNames |-> LET n == CHOOSE n \in 1..9 : DiskSample[n] = f IN line[n]]

DiskInit ==
  /\ requests = [d \in Disks |-> NoRequests]
  /\ attached_disks = Disks
  /\ clock = 1 /\ now = 0
  /\ unread_disks = {}
  /\ last_samples = NoEntry /\ last_time = NoEntry
  /\ disk_info = NoEntry
  /\ since = [d \in Disks |-> Nothing]

-----------------------------------------------------------------------------
(* The host. *)

Request(d, kind) ==
  /\ d \in attached_disks
  /\ requests[d].reads + requests[d].writes < MaxRequests[d]
  /\ requests' = [requests EXCEPT ![d][kind] = @ + 1]
  /\ since' = IF kind = "reads" /\ ~since[d].restarted
                 THEN [since EXCEPT ![d].reads = @ + 1] ELSE since
  /\ UNCHANGED <<attached_disks, clock, now, unread_disks, last_samples, last_time, disk_info>>

Detach(d) ==
  /\ d \in attached_disks
  /\ attached_disks' = attached_disks \ {d}
  /\ unread_disks' = unread_disks \ {d}
  /\ UNCHANGED <<requests, clock, now, last_samples, last_time, disk_info, since>>

\* A disk under the same name, the counters of which start at 0.
Attach(d) ==
  /\ d \notin attached_disks
  /\ attached_disks' = attached_disks \cup {d}
  /\ requests' = [requests EXCEPT ![d] = NoRequests]
  /\ since' = [since EXCEPT ![d].restarted = TRUE, ![d].reads = 0]
  /\ UNCHANGED <<clock, now, unread_disks, last_samples, last_time, disk_info>>

\* The wall clock is set, between two rounds.
StepClock ==
  /\ unread_disks = {}
  /\ clock' \in 1..MaxClock /\ clock' # clock
  /\ since' = [d \in Disks |-> [since[d] EXCEPT !.slept = 0, !.stepped = TRUE,
                                                   !.back = @ \/ clock' < clock]]
  /\ UNCHANGED <<requests, attached_disks, now, unread_disks, last_samples, last_time, disk_info>>

-----------------------------------------------------------------------------
(* DiskMonitor::UpdateOnce. *)

\* The sleep of node_client's loop, and the start of the next round, with a new
\* report.
DiskNow ==
  /\ unread_disks = {} /\ clock < MaxClock
  /\ clock' = clock + 1
  /\ now' = clock + 1
  /\ unread_disks' = attached_disks
  /\ since' = [d \in Disks |-> IF since[d].stepped THEN since[d]
                                                ELSE [since[d] EXCEPT !.slept = @ + 1]]
  /\ disk_info' = NoEntry
  /\ UNCHANGED <<requests, attached_disks, last_samples, last_time>>

DiskMinus(x, y) == (x - y) % DiskWrap

\* operator[] inserts 0 for a disk without a time.
LastTime(d) == IF d \in DOMAIN last_time THEN last_time[d] ELSE 0

Comparable(d) == d \in DOMAIN last_samples /\ now - LastTime(d) > 0

Differences(curr, last) == [f \in SampleNames |-> DiskMinus(curr[f], last[f])]

Stored(f, d, value) == [k \in DOMAIN f \cup {d} |-> IF k = d THEN value ELSE f[k]]

\* Variant: the time is kept only with a rate.
TimeKept_with_rate(d) == IF Comparable(d) \/ d \notin DOMAIN last_time
                           THEN Stored(last_time, d, now) ELSE last_time

TimeKept(d) == Stored(last_time, d, now)

\* Variant: emplace, which keeps the first sample of a disk.
SampleKept_first(d, curr) == IF d \in DOMAIN last_samples THEN last_samples
                                                        ELSE Stored(last_samples, d, curr)

SampleKept(d, curr) == Stored(last_samples, d, curr)

\* The line of d becomes an entry of the report: counters, and rates over dt,
\* or zeros in their place, for which dt is 0 here.  `behind` is not sent.
DiskLine(d) ==
  LET curr == Parse(Line(d)) IN
  /\ d \in unread_disks \ Virtual
  /\ unread_disks' = unread_disks \ {d}
  /\ disk_info' = Stored(disk_info, d,
       [counters |-> curr,
        rates |-> IF Comparable(d) THEN Differences(curr, last_samples[d])
                                   ELSE [f \in SampleNames |-> 0],
        dt |-> IF Comparable(d) THEN now - LastTime(d) ELSE 0,
        behind |-> requests[d]])
  /\ last_samples' = SampleKept(d, curr)
  /\ last_time' = TimeKept(d)
  /\ since' = [since EXCEPT ![d] = Nothing]
  /\ UNCHANGED <<diskKernel, now>>

SkipLine(d) ==
  /\ d \in unread_disks \cap Virtual
  /\ unread_disks' = unread_disks \ {d}
  /\ UNCHANGED <<diskKernel, now, last_samples, last_time, disk_info, since>>

DiskNext ==
  \/ \E d \in Disks : \/ Request(d, "reads") \/ Request(d, "writes")
                      \/ Detach(d) \/ Attach(d)
                      \/ DiskLine(d) \/ SkipLine(d)
  \/ StepClock \/ DiskNow

DiskSpec == DiskInit /\ [][DiskNext]_diskVars

-----------------------------------------------------------------------------
DiskTypeOK ==
  /\ requests \in [Disks -> [reads : Nat, writes : Nat]]
  /\ attached_disks \subseteq Disks /\ unread_disks \subseteq attached_disks
  /\ clock \in 1..MaxClock /\ now \in 0..MaxClock
  /\ DOMAIN last_samples = DOMAIN last_time /\ DOMAIN disk_info \subseteq DOMAIN last_samples
  /\ DOMAIN last_samples \subseteq Disks \ Virtual
  /\ \A d \in DOMAIN last_samples :
       /\ last_samples[d] \in [SampleNames -> Nat]
       /\ last_time[d] \in 1..MaxClock
  /\ \A d \in DOMAIN disk_info : disk_info[d].rates \in [SampleNames -> 0 .. DiskWrap - 1]

Reported(d) == d \in unread_disks \ unread_disks' /\ d \notin Virtual
               /\ d \in attached_disks'

\* A rate is over a positive time and counts the requests since the previous
\* line of the disk, each once, also after rounds without rates; only the first
\* one after the disk was attached again does not.  The time is the one slept,
\* unless the clock was stepped since that line.
RatesAreOfTheirInterval ==
  [][\A d \in Disks : Reported(d) /\ disk_info'[d].dt # 0 =>
       /\ disk_info'[d].dt > 0
       /\ ~since[d].restarted => /\ disk_info'[d].rates.reads = since[d].reads
                                 /\ disk_info'[d].rates.sectors_read = since[d].reads
       /\ ~since[d].stepped => disk_info'[d].dt = since[d].slept]_diskVars

\* Only the first line of a disk, or the first one after the clock was set
\* back, has no rates: a clock that goes back by hours costs one round of rates
\* and not those hours.
OneRoundPerStepBack ==
  [][\A d \in Disks : Reported(d) /\ disk_info'[d].dt = 0 =>
       d \notin DOMAIN last_samples \/ since[d].back]_diskVars

-----------------------------------------------------------------------------
\* "uint64 writes = 3" (proto/disk_info.proto:7), read from "/proc/diskstats"
\* (README.md:36): the entry of a disk says how many writes it has done.
WritesAreWrites ==
  \A d \in DOMAIN disk_info : disk_info[d].counters["writes"] = disk_info[d].behind.writes
=============================================================================
