-------------------------- MODULE MarketDataProofs --------------------------
(* Stored bars, for any number of agents, any length of bars, months, answers  *)
(* and ingestions, any clock and any faults; and the mark prices and valuations. *)
EXTENDS BarStore, MarketMarks, Integers, FiniteSetTheorems, WellFoundedInduction, TLAPS

-----------------------------------------------------------------------------
(* The invariant.  What a job must satisfy is said of the job, the files, the  *)
(* time and the bars that were ever stored, so that it can be compared between *)
(* two states.                                                                 *)

Rows == [quality : Qualities, first : Nat, last : Nat]
Closes == [Bars -> Nat]
Jobs ==
  [pc : JobStages, set : Datasets, from : Nat, to : Nat, cursor : Nat, got : Closes,
   todo : SUBSET Bars, copy : Closes, row : Rows, overtaken : BOOLEAN, shared : BOOLEAN]

\* A month is no later than its first bar, so it has the name of a bar.
BarTypeOK ==
  /\ clock \in Nat \ {0}
  /\ files \in [Datasets -> Closes]
  /\ broken \subseteq Datasets \X Bars /\ torn \in BOOLEAN
  /\ job \in [Agents -> Jobs]
  /\ health \in Rows /\ lost \subseteq Bars
  /\ asked \in 0..MaxRequests /\ faults \in 0..MaxFaults

Writing == {"merging", "merged", "opened"}
Ingesting == Writing \cup {"fetching"}
Alone(j) == j.pc \in Ingesting /\ ~j.overtaken

\* The latest answer that the exchange can have given for a bar at time t.
AnswerAt(b, t) == IF t < b * TicksPerBar THEN t ELSE b * TicksPerBar

\* Nothing is from the future.
NotAhead(closes, t) == \A b \in Bars : closes[b] <= AnswerAt(b, t)

\* A job that nobody has overtaken holds no whole answer older than what is stored ...
GotIsNewer(j, fs) ==
  Alone(j) => \A b \in Bars :
                 j.got[b] # NoBar /\ ~Cut(j, b) => fs[j.set][b] <= j.got[b]

\* What is not paged is fetched at once.
NothingSoFar(j) == j.pc = "fetching" /\ j.set = "context" => j.got = Empty

\* ... and the file it has merged with is still the one that is stored.
CopyIsMerged(j, fs) ==
  Alone(j) /\ j.pc \in {"merged", "opened"} =>
    \A b \in Bars : MonthOf(b) = Min(j.todo) =>
      j.copy[b] = IF j.got[b] # NoBar THEN j.got[b] ELSE fs[j.set][b]

\* Bars that are stored, or were.
Kept == Stored \cup lost
Covered(row, kept) ==
  row.quality = "healthy" => \A b \in row.first..row.last : b \in kept

SoundJob(j, fs, t, kept) ==
  /\ j.pc \in Writing => j.todo # {}
  /\ NotAhead(j.got, t) /\ NotAhead(j.copy, t)
  /\ NothingSoFar(j)
  /\ GotIsNewer(j, fs)
  /\ CopyIsMerged(j, fs)
  /\ Covered(j.row, kept)

JobsSound == \A a \in Agents : SoundJob(job[a], files, clock, Kept)
FilesNotAhead == \A d \in Datasets : NotAhead(files[d], clock)

BarInv == BarTypeOK /\ JobsSound /\ FilesNotAhead /\ Covered(health, Kept)

-----------------------------------------------------------------------------
(* Bars, months and sets of them.                                              *)

\* Bars and months are numbers, and a month has the name of a bar.
LEMMA BarsAreNumbers ==
  /\ \A t \in Nat \ {0} : BarAt(t) \in Nat \ {0}
  /\ Bars \in SUBSET (Nat \ {0}) /\ IsFiniteSet(Bars)
  /\ \A b \in Bars : MonthOf(b) \in Bars
<1>1. \A x \in Nat, k \in Nat \ {0} : x \div k \in Nat /\ x \div k <= x
  OBVIOUS
<1>2. TicksPerBar \in Nat \ {0} /\ BarsPerMonth \in Nat \ {0} /\ MaxClock \in Nat \ {0}
  BY BarAssumption
<1>3. \A t \in Nat \ {0} : BarAt(t) \in Nat \ {0}
  <2>1. SUFFICES ASSUME NEW t \in Nat \ {0} PROVE BarAt(t) \in Nat \ {0}
    OBVIOUS
  <2>2. (t - 1) \div TicksPerBar \in Nat
    <3>1. t - 1 \in Nat
      OBVIOUS
    <3> QED BY <1>1, <1>2, <3>1
  <2> QED BY <2>2 DEF BarAt
<1> DEFINE last == BarAt(MaxClock)
<1>4. last \in Nat \ {0} /\ Bars = 1..last
  BY <1>2, <1>3 DEF Bars
<1> HIDE DEF last
<1>5. Bars \in SUBSET (Nat \ {0}) /\ IsFiniteSet(Bars)
  <2>1. 1 \in Int /\ last \in Int
    BY <1>4
  <2> QED BY <1>4, <2>1, FS_Interval
<1>6. \A b \in Bars : MonthOf(b) \in Bars
  <2>1. SUFFICES ASSUME NEW b \in Bars PROVE MonthOf(b) \in Bars
    OBVIOUS
  <2> DEFINE q == (b - 1) \div BarsPerMonth
  <2>2. b - 1 \in Nat /\ b \in 1..last
    BY <1>4
  <2>3. q \in Nat /\ q <= b - 1
    BY <1>1, <1>2, <2>2
  <2>4. MonthOf(b) = 1 + q
    BY DEF MonthOf
  <2> HIDE DEF q
  <2> QED BY <1>4, <2>2, <2>3, <2>4
<1> QED BY <1>3, <1>5, <1>6

Smallest(T, B) == T \in B /\ \A U \in B : U \subseteq T => U = T

\* A family of subsets of a finite set has a smallest member.
LEMMA SmallestSubset ==
  ASSUME NEW S, IsFiniteSet(S), NEW B \in SUBSET (SUBSET S), B # {}
  PROVE  \E T : Smallest(T, B)
<1>1. IsWellFoundedOn(StrictSubsetOrdering(S), SUBSET S)
  BY FS_StrictSubsetOrderingWellFounded, FS_FiniteSubsetsOfFinite
<1>2. PICK T \in B : \A U \in B : ~ (<<U, T>> \in StrictSubsetOrdering(S))
  BY <1>1, WFMin
<1> QED BY <1>2 DEF StrictSubsetOrdering, Smallest

Top(T) == \E x \in T : \A y \in T : x >= y
Bottom(T) == \E x \in T : \A y \in T : x <= y

\* One more number does not take the ends of a set away.
LEMMA OneMore ==
  ASSUME NEW T \in SUBSET Nat, NEW x \in T, T \ {x} = {} \/ (Top(T \ {x}) /\ Bottom(T \ {x}))
  PROVE  Top(T) /\ Bottom(T)
<1>1. CASE T \ {x} = {}
  BY <1>1 DEF Top, Bottom
<1>2. CASE Top(T \ {x}) /\ Bottom(T \ {x})
  <2>1. PICK hi \in T \ {x} : \A y \in T \ {x} : hi >= y
    BY <1>2 DEF Top
  <2>2. PICK lo \in T \ {x} : \A y \in T \ {x} : lo <= y
    BY <1>2 DEF Bottom
  <2>3. (x >= hi => \A y \in T : x >= y) /\ (hi >= x => \A y \in T : hi >= y)
    BY <2>1
  <2>4. (x <= lo => \A y \in T : x <= y) /\ (lo <= x => \A y \in T : lo <= y)
    BY <2>2
  <2>5. Top(T)
    BY <2>1, <2>3 DEF Top
  <2>6. Bottom(T)
    BY <2>2, <2>4 DEF Bottom
  <2> QED BY <2>5, <2>6
<1> QED BY <1>1, <1>2

\* A finite set of numbers has a first and a last one, which Min and Max find: a
\* smallest set without them would lose one of its members and still be without.
LEMMA EndsExist ==
  ASSUME NEW S \in SUBSET Nat, IsFiniteSet(S), S # {}
  PROVE  /\ Max(S) \in S /\ \A y \in S : Max(S) >= y
         /\ Min(S) \in S /\ \A y \in S : Min(S) <= y
<1> DEFINE Bad == {T \in SUBSET S : T # {} /\ ~(Top(T) /\ Bottom(T))}
<1>1. Bad = {}
  <2>1. SUFFICES ASSUME Bad # {} PROVE FALSE
    OBVIOUS
  <2>2. Bad \in SUBSET (SUBSET S)
    OBVIOUS
  <2>3. \E T : Smallest(T, Bad)
    <3> HIDE DEF Bad
    <3> QED BY <2>1, <2>2, SmallestSubset
  <2>4. PICK T : Smallest(T, Bad)
    BY <2>3
  <2>5. T \in SUBSET S /\ T # {} /\ ~(Top(T) /\ Bottom(T))
    BY <2>4 DEF Smallest
  <2>6. PICK x \in T : TRUE
    BY <2>5
  <2>7. T \ {x} \notin Bad
    BY <2>4, <2>6 DEF Smallest
  <2>8. T \ {x} = {} \/ (Top(T \ {x}) /\ Bottom(T \ {x}))
    BY <2>5, <2>7
  <2> QED BY <2>5, <2>6, <2>8, OneMore
<1>2. Top(S) /\ Bottom(S)
  BY <1>1
<1> QED BY <1>2 DEF Top, Bottom, Max, Min

\* What Min and Max are of a set of bars.
LEMMA EndsOfBars ==
  ASSUME NEW S \in SUBSET Bars, S # {}
  PROVE  /\ Max(S) \in S /\ \A y \in S : Max(S) >= y
         /\ Min(S) \in S /\ \A y \in S : Min(S) <= y
BY BarsAreNumbers, EndsExist, FS_Subset

\* Bars none of which is followed by a hole have no hole between them.
LEMMA NoHole ==
  ASSUME NEW S \in SUBSET Bars, S # {}, Gaps(S) = {}
  PROVE  \A b \in Min(S)..Max(S) : b \in S
<1> DEFINE lo == Min(S)
           hi == Max(S)
<1>1. /\ hi \in S /\ (\A y \in S : hi >= y)
      /\ lo \in S /\ (\A y \in S : lo <= y)
  BY EndsOfBars
<1>2. \A b \in S : ~(b < hi /\ b + 1 \notin S)
  BY DEF Gaps
<1> HIDE DEF lo, hi
<1>3. S \in SUBSET Nat /\ lo \in Nat /\ hi \in Nat
  BY <1>1, BarsAreNumbers
<1>4. SUFFICES ASSUME NEW b \in lo..hi, b \notin S PROVE FALSE
  BY DEF lo, hi
<1> DEFINE before == {c \in S : c < b}
           m == Max(before)
<1>5. before \in SUBSET Bars /\ before # {}
  <2>1. lo \in before
    BY <1>1, <1>3, <1>4
  <2> QED BY <2>1
<1>6. m \in before /\ \A y \in before : m >= y
  <2> HIDE DEF before
  <2> QED BY <1>5, EndsOfBars
<1> HIDE DEF m
<1>7. m \in S /\ m \in Nat /\ m < b /\ b \in Nat /\ b <= hi
  BY <1>3, <1>4, <1>6
<1>8. m + 1 \notin S
  <2>1. SUFFICES ASSUME m + 1 \in S PROVE FALSE
    OBVIOUS
  <2>2. m + 1 < b
    BY <1>4, <1>7, <2>1
  <2>3. m + 1 \in before
    BY <2>1, <2>2
  <2> QED BY <1>6, <1>7, <2>3
<1> QED BY <1>2, <1>3, <1>7, <1>8

-----------------------------------------------------------------------------
(* What one job may become.                                                    *)

\* What is empty is from no time.
LEMMA EmptyCloses ==
  /\ Empty \in Closes /\ (\A b \in Bars : Empty[b] = NoBar)
  /\ \A t \in Nat : NotAhead(Empty, t)
<1>1. Empty \in Closes /\ (\A b \in Bars : Empty[b] = NoBar)
  BY DEF Empty, Closes, NoBar
<1>2. \A t \in Nat : NotAhead(Empty, t)
  <2>1. SUFFICES ASSUME NEW t \in Nat, NEW b \in Bars PROVE 0 <= AnswerAt(b, t)
    BY <1>1 DEF NotAhead, NoBar
  <2>2. b \in Nat /\ TicksPerBar \in Nat
    BY BarsAreNumbers, BarAssumption
  <2>3. b * TicksPerBar \in Nat
    BY <2>2
  <2> QED BY <2>3 DEF AnswerAt
<1> QED BY <1>1, <1>2

\* An answer is a number, and a later one is never lower.
LEMMA AnswersGrow ==
  ASSUME NEW b \in Bars, NEW t \in Nat, NEW u \in Nat, t <= u
  PROVE  AnswerAt(b, t) \in Nat /\ AnswerAt(b, t) <= AnswerAt(b, u)
<1> DEFINE end == b * TicksPerBar
<1>1. b \in Nat /\ TicksPerBar \in Nat
  BY BarsAreNumbers, BarAssumption
<1>2. end \in Nat
  BY <1>1
<1>3. \A v \in Nat : AnswerAt(b, v) = IF v < end THEN v ELSE end
  BY DEF AnswerAt
<1> HIDE DEF end
<1> QED BY <1>2, <1>3

\* The exchange's answer is the latest of its time.
LEMMA AnswerIsLatest ==
  ASSUME NEW b \in Bars
  PROVE  Close(b) = AnswerAt(b, clock)
BY DEF AnswerAt, Close

\* What was not ahead is not ahead later.
LEMMA NotAheadLater ==
  ASSUME NEW closes \in Closes, NEW t \in Nat, NEW u \in Nat, t <= u, NotAhead(closes, t)
  PROVE  NotAhead(closes, u)
<1>1. SUFFICES ASSUME NEW b \in Bars PROVE closes[b] <= AnswerAt(b, u)
  BY DEF NotAhead
<1>2. closes[b] <= AnswerAt(b, t) /\ closes[b] \in Nat
  BY DEF NotAhead, Closes
<1>3. AnswerAt(b, t) \in Nat /\ AnswerAt(b, t) <= AnswerAt(b, u)
  BY AnswersGrow
<1>4. AnswerAt(b, u) \in Nat
  BY AnswersGrow
<1> QED BY <1>2, <1>3, <1>4

\* A verdict stays true while no kept bar is forgotten.
LEMMA CoveredMore ==
  ASSUME NEW row, NEW kept, NEW more, kept \subseteq more, Covered(row, kept)
  PROVE  Covered(row, more)
BY DEF Covered

\* Neither time nor more kept bars make a job unsound.
LEMMA SoundLater ==
  ASSUME NEW j \in Jobs, NEW fs, NEW t \in Nat, NEW u \in Nat, t <= u,
         NEW kept, NEW more, kept \subseteq more, SoundJob(j, fs, t, kept)
  PROVE  SoundJob(j, fs, u, more)
<1>1. j.got \in Closes /\ j.copy \in Closes
  BY DEF Jobs
<1> QED BY <1>1, NotAheadLater, CoveredMore DEF SoundJob

\* Nor does what happens to the files matter to a job that was overtaken.
LEMMA SoundUnlessAlone ==
  ASSUME NEW j \in Jobs, NEW fs, NEW gs, NEW t \in Nat, NEW kept,
         ~Alone(j), SoundJob(j, fs, t, kept)
  PROVE  SoundJob(j, gs, t, kept)
BY DEF SoundJob, GotIsNewer, CopyIsMerged

\* A job that holds nothing is sound.
LEMMA SoundEmpty ==
  ASSUME NEW j, j.got = Empty, j.copy = Empty, j.row = NoHealth, j.pc \notin Writing,
         NEW fs, NEW t \in Nat, NEW kept
  PROVE  SoundJob(j, fs, t, kept)
<1>1. NotAhead(j.got, t) /\ NotAhead(j.copy, t)
  BY EmptyCloses
<1>2. GotIsNewer(j, fs)
  BY EmptyCloses DEF GotIsNewer
<1>3. CopyIsMerged(j, fs)
  BY DEF CopyIsMerged, Writing
<1>4. Covered(j.row, kept)
  BY DEF Covered, NoHealth
<1>5. NothingSoFar(j)
  BY DEF NothingSoFar
<1> QED BY <1>1, <1>2, <1>3, <1>4, <1>5 DEF SoundJob

\* The jobs that hold nothing.
LEMMA EmptyJobs ==
  ASSUME NEW from \in Nat, NEW to \in Nat, NEW cursor \in Nat, NEW d \in Datasets
  PROVE  /\ IdleJob \in Jobs
         /\ [IdleJob EXCEPT !.pc = "fetching", !.set = d, !.from = from, !.to = to,
                            !.cursor = cursor] \in Jobs
         /\ [IdleJob EXCEPT !.pc = "stored", !.to = to] \in Jobs
         /\ [IdleJob EXCEPT !.pc = "stored", !.set = d, !.from = from, !.to = to] \in Jobs
<1>1. Empty \in Closes /\ NoHealth \in Rows /\ "bars" \in Datasets
  BY EmptyCloses DEF NoHealth, Rows, Qualities, NoBar, Datasets
<1>2. IdleJob \in Jobs
  BY <1>1 DEF IdleJob, Jobs, JobStages
<1> QED BY <1>1, <1>2 DEF IdleJob, Jobs, JobStages

\* ... and are sound.
LEMMA EmptyJobsSound ==
  ASSUME NEW from, NEW to, NEW cursor, NEW d, NEW fs, NEW t \in Nat, NEW kept
  PROVE  /\ SoundJob(IdleJob, fs, t, kept)
         /\ SoundJob([IdleJob EXCEPT !.pc = "fetching", !.set = d, !.from = from, !.to = to,
                                     !.cursor = cursor], fs, t, kept)
         /\ SoundJob([IdleJob EXCEPT !.pc = "stored", !.to = to], fs, t, kept)
         /\ SoundJob([IdleJob EXCEPT !.pc = "stored", !.set = d, !.from = from, !.to = to],
                     fs, t, kept)
<1> DEFINE f == [IdleJob EXCEPT !.pc = "fetching", !.set = d, !.from = from, !.to = to,
                                !.cursor = cursor]
           s == [IdleJob EXCEPT !.pc = "stored", !.to = to]
           r == [IdleJob EXCEPT !.pc = "stored", !.set = d, !.from = from, !.to = to]
<1>1. /\ IdleJob.got = Empty /\ IdleJob.copy = Empty /\ IdleJob.row = NoHealth
      /\ IdleJob.pc = "idle"
  BY DEF IdleJob
<1>2. f.got = Empty /\ f.copy = Empty /\ f.row = NoHealth /\ f.pc = "fetching"
  BY DEF IdleJob
<1>3. s.got = Empty /\ s.copy = Empty /\ s.row = NoHealth /\ s.pc = "stored"
  BY DEF IdleJob
<1>4. r.got = Empty /\ r.copy = Empty /\ r.row = NoHealth /\ r.pc = "stored"
  BY DEF IdleJob
<1>5. "idle" \notin Writing /\ "fetching" \notin Writing /\ "stored" \notin Writing
  BY DEF Writing
<1> HIDE DEF f, s, r
<1>6. SoundJob(IdleJob, fs, t, kept)
  BY <1>1, <1>5, SoundEmpty
<1>7. SoundJob(f, fs, t, kept) /\ SoundJob(s, fs, t, kept) /\ SoundJob(r, fs, t, kept)
  BY <1>2, <1>3, <1>4, <1>5, SoundEmpty
<1> QED BY <1>6, <1>7 DEF f, s, r

-----------------------------------------------------------------------------
(* The steps of one job, as changes of its record.                             *)

\* Only the last answer may be empty, or have a part; what is not paged ends at once.
Continues(j, chunk, finished, part) ==
  /\ finished \in BOOLEAN /\ part \in BOOLEAN
  /\ finished \/ (chunk # {} /\ j.set = "bars")
  /\ part => j.set = "context"

\* What an answer adds to a job: the closes of the bars in it are the latest, or no
\* later; the others stay; the months to write are those of the bars that it has now.
LEMMA FetchedParts ==
  ASSUME BarTypeOK, NEW j \in Jobs, NEW chunk \in SUBSET Bars, NEW finished, NEW part,
         Continues(j, chunk, finished, part), NEW k, k = Fetched(j, chunk, finished, part)
  PROVE  /\ k \in Jobs
         /\ k.pc \in Writing => k.todo # {}
         /\ k.pc \in {"fetching", "stored", "merging"}
         /\ k.pc = "fetching" => j.set = "bars"
         /\ k.set = j.set /\ k.overtaken = j.overtaken /\ k.copy = j.copy /\ k.row = j.row
         /\ \A b \in Bars : k.got[b] = Answered(j, chunk, part)[b]
<1> DEFINE got == Answered(j, chunk, part)
           todo == {MonthOf(b) : b \in {c \in Bars : got[c] # NoBar}}
           cursor == IF finished THEN 1 ELSE Max(chunk) + 1
           pc == IF ~finished THEN "fetching" ELSE IF todo = {} THEN "stored" ELSE "merging"
<1>1. got \in Closes
  <2>1. SUFFICES ASSUME NEW b \in Bars
                 PROVE  (IF b \notin chunk THEN j.got[b]
                         ELSE IF part /\ b = Min(chunk) THEN 1 ELSE Close(b)) \in Nat
    BY DEF Closes, Answered
  <2>2. Close(b) \in Nat
    BY AnswerIsLatest, AnswersGrow DEF BarTypeOK
  <2>3. j.got[b] \in Nat
    BY DEF Jobs, Closes
  <2> QED BY <2>2, <2>3
<1>2. todo \in SUBSET Bars
  BY BarsAreNumbers
<1>3. cursor \in Nat
  <2>1. ~finished => Max(chunk) \in Nat
    BY EndsOfBars, BarsAreNumbers DEF Continues
  <2> QED BY <2>1
<1>4. /\ pc \in {"fetching", "stored", "merging"}
      /\ pc = "merging" => todo # {}
      /\ pc = "fetching" => j.set = "bars"
  BY DEF Continues
<1>5. k = [j EXCEPT !.got = got, !.todo = todo, !.cursor = cursor, !.pc = pc]
  BY DEF Fetched
<1>6. \A b \in Bars : got[b] = Answered(j, chunk, part)[b]
  OBVIOUS
<1> HIDE DEF got, todo, cursor, pc
<1>7. k \in Jobs /\ k.pc = pc /\ k.todo = todo /\ k.got = got
  BY <1>1, <1>2, <1>3, <1>4, <1>5 DEF Jobs, JobStages
<1>8. k.set = j.set /\ k.overtaken = j.overtaken /\ k.copy = j.copy /\ k.row = j.row
  BY <1>5 DEF Jobs
<1> QED BY <1>4, <1>6, <1>7, <1>8 DEF Writing

\* An answer leaves its job sound: what is new is the latest there is, but for a
\* part, which is the first point of the answer.
LEMMA FetchedSound ==
  ASSUME BarInv, NEW j \in Jobs, SoundJob(j, files, clock, Kept), j.pc = "fetching",
         NEW chunk \in SUBSET Bars, NEW finished, NEW part, Continues(j, chunk, finished, part),
         NEW k, k = Fetched(j, chunk, finished, part)
  PROVE  k \in Jobs /\ SoundJob(k, files, clock, Kept)
<1> DEFINE cutoff(b) == part /\ b = Min(chunk)
<1>1. /\ k \in Jobs
      /\ k.pc \in Writing => k.todo # {}
      /\ k.pc \in {"fetching", "stored", "merging"}
      /\ k.pc = "fetching" => j.set = "bars"
      /\ k.set = j.set /\ k.overtaken = j.overtaken /\ k.copy = j.copy /\ k.row = j.row
      /\ \A b \in Bars : k.got[b] = Answered(j, chunk, part)[b]
  <2>1. BarTypeOK
    BY DEF BarInv
  <2> QED BY <2>1, FetchedParts
<1>2. clock \in Nat \ {0} /\ j.set \in Datasets
  BY DEF BarInv, BarTypeOK, Jobs
<1>3. \A b \in Bars : Close(b) = AnswerAt(b, clock) /\ AnswerAt(b, clock) \in Nat
  BY <1>2, AnswerIsLatest, AnswersGrow
<1>4. \A b \in Bars :
        k.got[b] = IF b \notin chunk THEN j.got[b] ELSE IF cutoff(b) THEN 1 ELSE Close(b)
  BY <1>1 DEF Answered
<1>5. \A b \in Bars : 1 <= AnswerAt(b, clock)
  <2>1. SUFFICES ASSUME NEW b \in Bars PROVE 1 <= AnswerAt(b, clock)
    OBVIOUS
  <2> DEFINE end == b * TicksPerBar
  <2>2. b \in Nat \ {0} /\ TicksPerBar \in Nat \ {0}
    BY BarsAreNumbers, BarAssumption
  <2>3. end \in Nat \ {0}
    BY <2>2
  <2>4. AnswerAt(b, clock) = IF clock < end THEN clock ELSE end
    BY DEF AnswerAt
  <2> HIDE DEF end
  <2> QED BY <1>2, <2>3, <2>4
<1> HIDE DEF cutoff
<1>6. NotAhead(k.got, clock) /\ NotAhead(k.copy, clock)
  <2>1. \A b \in Bars : j.got[b] <= AnswerAt(b, clock)
    BY DEF SoundJob, NotAhead
  <2>2. NotAhead(k.got, clock)
    BY <1>3, <1>4, <1>5, <2>1 DEF NotAhead
  <2> QED BY <1>1, <2>2 DEF SoundJob
<1>7. ASSUME NEW b \in Bars, b \in chunk, cutoff(b) PROVE Cut(k, b)
  <2>1. part /\ j.set = "context" /\ b = Min(chunk)
    BY <1>7 DEF cutoff, Continues
  <2>2. \A c \in Bars : j.got[c] = NoBar
    BY <2>1, EmptyCloses DEF SoundJob, NothingSoFar
  <2>3. \A c \in Bars : k.got[c] # NoBar => c \in chunk
    BY <1>4, <2>2
  <2>4. \A c \in chunk : b <= c
    BY <1>7, <2>1, EndsOfBars
  <2> QED BY <1>1, <2>1, <2>3, <2>4 DEF Cut
<1>8. GotIsNewer(k, files)
  <2>1. SUFFICES ASSUME Alone(k), NEW b \in Bars, k.got[b] # NoBar, ~Cut(k, b)
                 PROVE  files[j.set][b] <= k.got[b]
    BY <1>1 DEF GotIsNewer
  <2>2. files[j.set][b] <= Close(b)
    BY <1>2, <1>3 DEF BarInv, FilesNotAhead, NotAhead
  <2>3. CASE b \in chunk
    BY <1>4, <1>7, <2>1, <2>2, <2>3
  <2>4. CASE b \notin chunk
    <3>1. j.got[b] # NoBar
      BY <1>4, <2>1, <2>4
    <3>2. Alone(j)
      BY <1>1, <2>1 DEF Alone, Ingesting
    <3>3. ~Cut(j, b)
      BY <3>1, EmptyCloses DEF Cut, SoundJob, NothingSoFar
    <3>4. files[j.set][b] <= j.got[b]
      BY <3>1, <3>2, <3>3 DEF SoundJob, GotIsNewer
    <3> QED BY <1>4, <2>4, <3>4
  <2> QED BY <2>3, <2>4
<1>9. CopyIsMerged(k, files)
  BY <1>1 DEF CopyIsMerged
<1>10. NothingSoFar(k)
  BY <1>1 DEF NothingSoFar
<1>11. Covered(k.row, Kept)
  BY <1>1 DEF SoundJob
<1> QED BY <1>1, <1>6, <1>8, <1>9, <1>10, <1>11 DEF SoundJob

\* What is asked for is a set of bars, and an answer that is not the last is not
\* empty.
LEMMA PagesAreBars ==
  ASSUME NEW from, NEW to, NEW cursor
  PROVE  /\ Page(from, to) \in SUBSET Bars
         /\ Cardinality(Page(from, to)) < PageLimit \/ Page(from, to) # {}
         /\ \A j : Answers(j) \in SUBSET (SUBSET Bars)
<1>1. Page(from, to) \in SUBSET Bars
  BY DEF Page, Listed
<1>2. Cardinality(Page(from, to)) < PageLimit \/ Page(from, to) # {}
  BY BarAssumption, FS_EmptySet
<1>3. \A j : Answers(j) \in SUBSET (SUBSET Bars)
  BY DEF Answers, Listed
<1> QED BY <1>1, <1>2, <1>3

\* A month is merged: the copy has what was fetched, and else what is stored.
MergedJob(a) ==
  [job[a] EXCEPT !.pc = "merged",
                 !.copy = [b \in Bars |-> IF InMonth(a, b) THEN Merged(a, b) ELSE NoBar]]

\* A month is merged with the file as it is stored.
LEMMA MergedSound ==
  ASSUME BarInv, NEW a \in Agents, job[a].pc = "merging"
  PROVE  MergedJob(a) \in Jobs /\ SoundJob(MergedJob(a), files, clock, Kept)
<1> DEFINE j == job[a]
           copy == [b \in Bars |-> IF InMonth(a, b) THEN Merged(a, b) ELSE NoBar]
           k == MergedJob(a)
<1>1. /\ j \in Jobs /\ SoundJob(j, files, clock, Kept) /\ clock \in Nat
      /\ j.set \in Datasets /\ files[j.set] \in Closes /\ j.got \in Closes
  <2>1. j \in Jobs /\ SoundJob(j, files, clock, Kept) /\ clock \in Nat
    BY DEF BarInv, BarTypeOK, JobsSound
  <2>2. j.set \in Datasets /\ j.got \in Closes
    BY <2>1 DEF Jobs
  <2> QED BY <2>1, <2>2 DEF BarInv, BarTypeOK
<1>2. \A b \in Bars :
        copy[b] = IF MonthOf(b) = Min(j.todo)
                  THEN IF j.got[b] # NoBar THEN j.got[b] ELSE files[j.set][b]
                  ELSE NoBar
  BY DEF InMonth, ThisMonth, Merged
<1>3. copy \in Closes
  <2>1. DOMAIN copy = Bars /\ copy = [b \in Bars |-> copy[b]]
    OBVIOUS
  <2>2. \A b \in Bars : copy[b] \in Nat
    <3>1. \A b \in Bars : j.got[b] \in Nat /\ files[j.set][b] \in Nat
      BY <1>1 DEF Closes
    <3> HIDE DEF copy, j
    <3> QED BY <1>2, <3>1 DEF NoBar
  <2> HIDE DEF copy
  <2> QED BY <2>1, <2>2 DEF Closes
<1>4. NotAhead(copy, clock)
  <2>1. NotAhead(files[j.set], clock) /\ NotAhead(j.got, clock)
    BY <1>1 DEF BarInv, FilesNotAhead, SoundJob
  <2>2. NotAhead(Empty, clock) /\ \A b \in Bars : Empty[b] = NoBar
    BY <1>1, EmptyCloses
  <2> HIDE DEF copy, j
  <2> QED BY <1>2, <2>1, <2>2 DEF NotAhead
<1>5. k = [j EXCEPT !.pc = "merged", !.copy = copy]
  BY DEF MergedJob
<1>6. j.pc = "merging"
  OBVIOUS
<1> HIDE DEF copy, j, k
<1>7. /\ k \in Jobs /\ k.pc = "merged" /\ k.copy = copy
      /\ k.set = j.set /\ k.overtaken = j.overtaken /\ k.got = j.got /\ k.row = j.row
      /\ k.todo = j.todo
  BY <1>1, <1>3, <1>5 DEF Jobs, JobStages
<1>8. Alone(k) => Alone(j)
  BY <1>6, <1>7 DEF Alone, Ingesting, Writing
<1>9. SoundJob(k, files, clock, Kept)
  <2>1. GotIsNewer(k, files)
    BY <1>1, <1>7, <1>8 DEF SoundJob, GotIsNewer, Cut
  <2>2. CopyIsMerged(k, files)
    BY <1>2, <1>7 DEF CopyIsMerged
  <2>3. k.todo # {}
    BY <1>1, <1>6, <1>7 DEF SoundJob, Writing
  <2>4. NothingSoFar(k)
    BY <1>7 DEF NothingSoFar
  <2> QED BY <1>1, <1>4, <1>7, <2>1, <2>2, <2>3, <2>4 DEF SoundJob
<1> QED BY <1>7, <1>9 DEF k

\* The file is emptied: nothing else of the job changes.
LEMMA OpenedSound ==
  ASSUME BarInv, NEW a \in Agents, job[a].pc = "merged", NEW k, k = [job[a] EXCEPT !.pc = "opened"]
  PROVE  k \in Jobs /\ SoundJob(k, files, clock, Kept)
<1> DEFINE j == job[a]
<1>1. j \in Jobs /\ SoundJob(j, files, clock, Kept)
  BY DEF BarInv, BarTypeOK, JobsSound
<1>2. /\ k \in Jobs /\ k.pc = "opened" /\ k.copy = j.copy
      /\ k.set = j.set /\ k.overtaken = j.overtaken /\ k.got = j.got /\ k.row = j.row
      /\ k.todo = j.todo
  BY <1>1 DEF Jobs, JobStages
<1>3. j.pc = "merged"
  OBVIOUS
<1> HIDE DEF j
<1>4. (Alone(k) => Alone(j)) /\ j.todo # {}
  BY <1>1, <1>2, <1>3 DEF Alone, Ingesting, Writing, SoundJob
<1>5. GotIsNewer(k, files) /\ CopyIsMerged(k, files)
  BY <1>1, <1>2, <1>3, <1>4 DEF SoundJob, GotIsNewer, CopyIsMerged, Cut
<1>6. NothingSoFar(k)
  BY <1>2 DEF NothingSoFar
<1> QED BY <1>1, <1>2, <1>4, <1>5, <1>6 DEF SoundJob

\* A verdict over bars of which none is missing is true.
LEMMA CheckedCovers ==
  ASSUME BarTypeOK, NEW S \in SUBSET Stored
  PROVE  Checked(S) \in Rows /\ Covered(Checked(S), Kept)
<1>1. S \in SUBSET Bars /\ S \subseteq Kept
  BY DEF Stored, Kept
<1>2. CASE S = {}
  BY <1>2 DEF Checked, NoHealth, Rows, Qualities, Covered, NoBar
<1>3. CASE S # {}
  <2> DEFINE row == Checked(S)
             quality == IF Gaps(S) # {} THEN "gapped"
                        ELSE IF Max(S) + StaleBars <= BarAt(clock) THEN "stale" ELSE "healthy"
  <2>1. row = [first |-> Min(S), last |-> Max(S), quality |-> quality]
    BY <1>3 DEF Checked
  <2>2. Min(S) \in Nat /\ Max(S) \in Nat
    BY <1>1, <1>3, EndsOfBars, BarsAreNumbers
  <2>3. quality \in Qualities /\ (quality = "healthy" => Gaps(S) = {})
    BY DEF Qualities
  <2> HIDE DEF row, quality
  <2>4. row \in Rows
    BY <2>1, <2>2, <2>3 DEF Rows
  <2>5. Covered(row, Kept)
    <3>1. SUFFICES ASSUME quality = "healthy", NEW b \in Min(S)..Max(S) PROVE b \in Kept
      BY <2>1 DEF Covered
    <3>2. b \in S
      BY <1>1, <1>3, <2>3, <3>1, NoHole
    <3> QED BY <1>1, <3>2
  <2> QED BY <2>4, <2>5 DEF row
<1> QED BY <1>2, <1>3

\* A verdict leaves its job sound.
LEMMA CheckedSound ==
  ASSUME BarInv, NEW a \in Agents, job[a].pc = "stored", NEW S \in SUBSET Stored,
         NEW k, k = [job[a] EXCEPT !.pc = "checked", !.row = Checked(S)]
  PROVE  k \in Jobs /\ SoundJob(k, files, clock, Kept)
<1> DEFINE j == job[a]
           row == Checked(S)
<1>1. j \in Jobs /\ SoundJob(j, files, clock, Kept)
  BY DEF BarInv, BarTypeOK, JobsSound
<1>2. row \in Rows /\ Covered(row, Kept)
  BY CheckedCovers DEF BarInv
<1> HIDE DEF row
<1>3. /\ k \in Jobs /\ k.pc = "checked" /\ k.copy = j.copy /\ k.row = row
      /\ k.set = j.set /\ k.got = j.got
  BY <1>1, <1>2 DEF Jobs, JobStages, row
<1>4. k.pc \notin Writing /\ ~Alone(k)
  BY <1>3 DEF Alone, Ingesting, Writing
<1> HIDE DEF j
<1> QED BY <1>1, <1>2, <1>3, <1>4 DEF SoundJob, GotIsNewer, CopyIsMerged, NothingSoFar

-----------------------------------------------------------------------------
(* The steps.                                                                  *)

\* A step that changes one job and neither the files nor what is kept.
LEMMA JobChanges ==
  ASSUME BarInv, NEW a \in Agents, NEW k \in Jobs, SoundJob(k, files, clock, Kept),
         job' = [job EXCEPT ![a] = k], UNCHANGED <<clock, files, health, lost>>
  PROVE  job' \in [Agents -> Jobs] /\ JobsSound' /\ FilesNotAhead' /\ Covered(health, Kept)'
<1>1. job' \in [Agents -> Jobs] /\ \A r \in Agents : job'[r] = IF r = a THEN k ELSE job[r]
  BY DEF BarInv, BarTypeOK
<1>2. Kept' = Kept
  BY DEF Kept, Stored
<1>3. JobsSound'
  BY <1>1, <1>2 DEF BarInv, JobsSound
<1> QED BY <1>1, <1>2, <1>3 DEF BarInv, FilesNotAhead

\* Nothing is stored and nobody is at work.
LEMMA BarInitial == BarInit => BarInv
<1>1. SUFFICES ASSUME BarInit PROVE BarInv
  OBVIOUS
<1>2. clock \in Nat \ {0}
  BY <1>1, BarAssumption DEF BarInit
<1>3. IdleJob \in Jobs /\ SoundJob(IdleJob, files, clock, Kept)
  <2>1. 1 \in Nat /\ "bars" \in Datasets /\ clock \in Nat
    BY <1>2 DEF Datasets
  <2> QED BY <2>1, EmptyJobs, EmptyJobsSound
<1>4. NoHealth \in Rows /\ Covered(NoHealth, Kept)
  BY DEF NoHealth, Rows, Qualities, NoBar, Covered
<1>5. files \in [Datasets -> Closes] /\ FilesNotAhead
  BY <1>1, <1>2, EmptyCloses DEF BarInit, FilesNotAhead
<1>6. BarTypeOK
  <2>1. asked \in 0..MaxRequests /\ faults \in 0..MaxFaults
    BY <1>1, BarAssumption DEF BarInit
  <2>2. job \in [Agents -> Jobs]
    BY <1>1, <1>3 DEF BarInit
  <2> QED BY <1>1, <1>2, <1>4, <1>5, <2>1, <2>2 DEF BarInit, BarTypeOK
<1>7. JobsSound
  BY <1>1, <1>3 DEF BarInit, JobsSound
<1> QED BY <1>1, <1>4, <1>5, <1>6, <1>7 DEF BarInit, BarInv

\* The clock moves on.
LEMMA TickKeeps ==
  ASSUME BarInv, Tick
  PROVE  BarInv'
<1>1. clock \in Nat /\ clock' \in Nat \ {0} /\ clock <= clock'
  BY DEF BarInv, BarTypeOK, Tick
<1>2. Kept' = Kept /\ files' = files /\ job' = job /\ health' = health
  BY DEF Tick, Kept, Stored
<1>3. BarTypeOK'
  BY <1>1 DEF BarInv, BarTypeOK, Tick
<1>4. JobsSound'
  <2>1. SUFFICES ASSUME NEW a \in Agents PROVE SoundJob(job[a], files, clock', Kept)
    BY <1>2 DEF JobsSound
  <2>2. job[a] \in Jobs /\ SoundJob(job[a], files, clock, Kept)
    BY DEF BarInv, BarTypeOK, JobsSound
  <2> QED BY <1>1, <2>2, SoundLater
<1>5. FilesNotAhead'
  <2>1. SUFFICES ASSUME NEW d \in Datasets PROVE NotAhead(files[d], clock')
    BY <1>2 DEF FilesNotAhead
  <2>2. files[d] \in Closes /\ NotAhead(files[d], clock)
    BY DEF BarInv, BarTypeOK, FilesNotAhead
  <2> QED BY <1>1, <2>2, NotAheadLater
<1> QED BY <1>2, <1>3, <1>4, <1>5 DEF BarInv

\* A job that has just begun holds nothing.
LEMMA Begins ==
  ASSUME BarInv, NEW a \in Agents, MayStart(a), NEW k \in Jobs,
         SoundJob(k, files, clock, Kept), job' = [job EXCEPT ![a] = k],
         UNCHANGED <<clock, files, broken, torn, health, lost, faults>>
  PROVE  BarInv'
<1>1. asked' \in 0..MaxRequests
  <2>1. asked \in 0..MaxRequests /\ MaxRequests \in Nat
    BY BarAssumption DEF BarInv, BarTypeOK
  <2>2. asked' = asked \/ (asked < MaxRequests /\ asked' = asked + 1)
    BY DEF MayStart
  <2> QED BY <2>1, <2>2
<1>2. job' \in [Agents -> Jobs] /\ JobsSound' /\ FilesNotAhead' /\ Covered(health, Kept)'
  BY JobChanges
<1> QED BY <1>1, <1>2 DEF BarInv, BarTypeOK

\* An ingestion begins.
LEMMA StartIngestKeeps ==
  ASSUME BarInv, NEW a \in Agents, NEW d \in Datasets, NEW n \in Lookbacks, StartIngest(a, d, n)
  PROVE  BarInv'
<1> DEFINE from == IF BarAt(clock) > n THEN BarAt(clock) - n ELSE 1
           f == [IdleJob EXCEPT !.pc = "fetching", !.set = d, !.from = from,
                                !.to = BarAt(clock), !.cursor = from]
<1>1. BarAt(clock) \in Nat /\ clock \in Nat /\ n \in Nat
  BY BarsAreNumbers, BarAssumption DEF BarInv, BarTypeOK
<1>2. from \in Nat
  BY <1>1
<1>3. /\ MayStart(a) /\ job' = [job EXCEPT ![a] = f]
      /\ UNCHANGED <<clock, files, broken, torn, health, lost, faults>>
  BY DEF StartIngest
<1>4. f \in Jobs /\ SoundJob(f, files, clock, Kept)
  <2> HIDE DEF from
  <2>1. f \in Jobs
    BY <1>1, <1>2, EmptyJobs
  <2>2. SoundJob(f, files, clock, Kept)
    BY <1>1, EmptyJobsSound
  <2> QED BY <2>1, <2>2
<1> HIDE DEF f
<1> QED BY <1>3, <1>4, Begins

\* A check begins.
LEMMA StartCheckKeeps ==
  ASSUME BarInv, NEW a \in Agents, StartCheck(a)
  PROVE  BarInv'
<1> DEFINE s == [IdleJob EXCEPT !.pc = "stored", !.to = BarAt(clock)]
<1>1. BarAt(clock) \in Nat /\ clock \in Nat /\ 1 \in Nat /\ "bars" \in Datasets
  BY BarsAreNumbers DEF BarInv, BarTypeOK, Datasets
<1>2. /\ MayStart(a) /\ job' = [job EXCEPT ![a] = s]
      /\ UNCHANGED <<clock, files, broken, torn, health, lost, faults>>
  BY DEF StartCheck
<1>3. s \in Jobs /\ SoundJob(s, files, clock, Kept)
  <2>1. s \in Jobs
    BY <1>1, EmptyJobs
  <2>2. SoundJob(s, files, clock, Kept)
    BY <1>1, EmptyJobsSound
  <2> QED BY <2>1, <2>2
<1> HIDE DEF s
<1> QED BY <1>2, <1>3, Begins

\* An answer arrives, a page of several or all of it.
LEMMA FetchKeeps ==
  ASSUME BarInv, NEW a \in Agents, FetchPage(a) \/ FetchAll(a)
  PROVE  BarInv'
<1> DEFINE j == job[a]
<1>1. PICK chunk \in SUBSET Bars, finished \in BOOLEAN, part \in BOOLEAN :
        /\ Continues(j, chunk, finished, part)
        /\ job' = [job EXCEPT ![a] = Fetched(j, chunk, finished, part)]
  <2>1. CASE FetchPage(a)
    <3> DEFINE page == Page(j.cursor, j.to)
               done == Cardinality(page) < PageLimit \/ Max(page) <= j.cursor
    <3>1. job' = [job EXCEPT ![a] = Fetched(j, page, done, FALSE)] /\ j.set = "bars"
      BY <2>1 DEF FetchPage
    <3>2. page \in SUBSET Bars /\ (Cardinality(page) < PageLimit \/ page # {})
      BY PagesAreBars
    <3>3. done \in BOOLEAN /\ Continues(j, page, done, FALSE)
      BY <3>1, <3>2 DEF Continues
    <3> HIDE DEF page, done
    <3> QED BY <3>1, <3>2, <3>3
  <2>2. CASE FetchAll(a)
    <3>1. PICK chunk \in Answers(j), part \in BOOLEAN :
            job' = [job EXCEPT ![a] = Fetched(j, chunk, TRUE, part)]
      BY <2>2 DEF FetchAll
    <3>2. chunk \in SUBSET Bars /\ Continues(j, chunk, TRUE, part)
      BY <2>2, PagesAreBars DEF Continues, FetchAll
    <3> QED BY <3>1, <3>2
  <2> QED BY <2>1, <2>2
<1>2. PICK k : k = Fetched(j, chunk, finished, part)
  OBVIOUS
<1>3. j \in Jobs /\ SoundJob(j, files, clock, Kept) /\ j.pc = "fetching"
  BY DEF BarInv, BarTypeOK, JobsSound, FetchPage, FetchAll
<1>4. k \in Jobs /\ SoundJob(k, files, clock, Kept)
  <2> HIDE DEF j
  <2> QED BY <1>1, <1>2, <1>3, FetchedSound
<1>5. UNCHANGED <<clock, files, broken, torn, health, lost, asked, faults>>
  BY DEF FetchPage, FetchAll
<1>6. job' \in [Agents -> Jobs] /\ JobsSound' /\ FilesNotAhead' /\ Covered(health, Kept)'
  BY <1>1, <1>2, <1>4, <1>5, JobChanges
<1> QED BY <1>5, <1>6 DEF BarInv, BarTypeOK

\* What an idle job leaves behind.
LEMMA GivesUp ==
  ASSUME BarInv, NEW a \in Agents, job' = [job EXCEPT ![a] = IdleJob],
         UNCHANGED <<clock, files, health, lost>>
  PROVE  job' \in [Agents -> Jobs] /\ JobsSound' /\ FilesNotAhead' /\ Covered(health, Kept)'
<1>1. 1 \in Nat /\ "bars" \in Datasets /\ clock \in Nat
  BY DEF Datasets, BarInv, BarTypeOK
<1>2. IdleJob \in Jobs /\ SoundJob(IdleJob, files, clock, Kept)
  BY <1>1, EmptyJobs, EmptyJobsSound
<1> QED BY <1>2, JobChanges

\* A job fails or is done.
LEMMA LeaveKeeps ==
  ASSUME BarInv, NEW a \in Agents, FetchFails(a) \/ FinishContext(a)
  PROVE  BarInv'
<1>1. /\ job' = [job EXCEPT ![a] = IdleJob]
      /\ UNCHANGED <<clock, files, broken, health, lost, asked>>
      /\ torn' \in BOOLEAN
  BY DEF FetchFails, FinishContext, BarInv, BarTypeOK
<1>2. faults' \in 0..MaxFaults
  <2>1. faults \in 0..MaxFaults /\ MaxFaults \in Nat
    BY BarAssumption DEF BarInv, BarTypeOK
  <2>2. faults' = faults \/ (faults < MaxFaults /\ faults' = faults + 1)
    BY DEF FetchFails, FinishContext
  <2> QED BY <2>1, <2>2
<1>3. job' \in [Agents -> Jobs] /\ JobsSound' /\ FilesNotAhead' /\ Covered(health, Kept)'
  BY <1>1, GivesUp
<1> QED BY <1>1, <1>2, <1>3 DEF BarInv, BarTypeOK

\* A process dies, and with it all that its agents were about to do.
LEMMA DiesKeeps ==
  ASSUME BarInv, NEW a \in Agents, Dies(a)
  PROVE  BarInv'
<1>1. /\ UNCHANGED <<clock, files, broken, health, lost, asked>>
      /\ \A r \in Agents : job'[r] = IdleJob \/ job'[r] = job[r]
      /\ job' = [r \in Agents |-> job'[r]]
      /\ torn' \in BOOLEAN
  BY DEF Dies
<1>2. faults' \in 0..MaxFaults
  BY BarAssumption DEF Dies, BarInv, BarTypeOK
<1>3. Kept' = Kept
  BY <1>1 DEF Kept, Stored
<1>4. IdleJob \in Jobs /\ SoundJob(IdleJob, files, clock, Kept)
  <2>1. 1 \in Nat /\ "bars" \in Datasets /\ clock \in Nat
    BY DEF Datasets, BarInv, BarTypeOK
  <2> QED BY <2>1, EmptyJobs, EmptyJobsSound
<1>5. \A r \in Agents : job'[r] \in Jobs /\ SoundJob(job'[r], files, clock, Kept)
  BY <1>1, <1>4 DEF BarInv, BarTypeOK, JobsSound
<1>6. job' \in [Agents -> Jobs] /\ JobsSound'
  BY <1>1, <1>3, <1>5 DEF JobsSound
<1>7. FilesNotAhead' /\ Covered(health, Kept)'
  BY <1>1, <1>3 DEF BarInv, FilesNotAhead
<1> QED BY <1>1, <1>2, <1>6, <1>7 DEF BarInv, BarTypeOK

\* A month's file is read and merged.
LEMMA ReadKeeps ==
  ASSUME BarInv, NEW a \in Agents, ReadMonth(a)
  PROVE  BarInv'
<1>1. UNCHANGED <<clock, files, broken, torn, health, lost, asked, faults>> /\ job[a].pc = "merging"
  BY DEF ReadMonth
<1>2. job' = [job EXCEPT ![a] = IdleJob] \/ job' = [job EXCEPT ![a] = MergedJob(a)]
  BY DEF ReadMonth, MergedJob
<1>3. MergedJob(a) \in Jobs /\ SoundJob(MergedJob(a), files, clock, Kept)
  BY <1>1, MergedSound
<1>4. job' \in [Agents -> Jobs] /\ JobsSound' /\ FilesNotAhead' /\ Covered(health, Kept)'
  BY <1>1, <1>2, <1>3, GivesUp, JobChanges
<1> QED BY <1>1, <1>4 DEF BarInv, BarTypeOK

\* The file of a job that writes is one of the month files.
LEMMA FilesAreMonths ==
  ASSUME BarInv, NEW a \in Agents, job[a].pc \in Writing
  PROVE  File(a) \in Datasets \X Bars
<1>1. job[a].set \in Datasets /\ job[a].todo \in SUBSET Bars /\ job[a].todo # {}
  BY DEF BarInv, BarTypeOK, Jobs, JobsSound, SoundJob
<1>2. Min(job[a].todo) \in Bars
  BY <1>1, EndsOfBars
<1> QED BY <1>1, <1>2 DEF File, ThisMonth

\* A month's file is emptied.
LEMMA OpenKeeps ==
  ASSUME BarInv, NEW a \in Agents, OpenMonth(a)
  PROVE  BarInv'
<1>1. UNCHANGED <<clock, files, torn, health, lost, asked, faults>> /\ job[a].pc = "merged"
  BY DEF OpenMonth
<1>2. PICK k : k = [job[a] EXCEPT !.pc = "opened"]
  OBVIOUS
<1>3. job' = [job EXCEPT ![a] = k]
  BY <1>2 DEF OpenMonth
<1>4. k \in Jobs /\ SoundJob(k, files, clock, Kept)
  BY <1>1, <1>2, OpenedSound
<1>5. job' \in [Agents -> Jobs] /\ JobsSound' /\ FilesNotAhead' /\ Covered(health, Kept)'
  BY <1>1, <1>3, <1>4, JobChanges
<1>6. broken' \subseteq Datasets \X Bars
  <2>1. File(a) \in Datasets \X Bars
    BY <1>1, FilesAreMonths DEF Writing
  <2> QED BY <2>1 DEF OpenMonth, BarInv, BarTypeOK
<1> QED BY <1>1, <1>5, <1>6 DEF BarInv, BarTypeOK

\* A dataset is checked.
LEMMA CheckKeeps ==
  ASSUME BarInv, NEW a \in Agents, CheckHealth(a)
  PROVE  BarInv'
<1> DEFINE S == Stored \cap (job[a].from..job[a].to)
<1>1. /\ UNCHANGED <<clock, files, broken, torn, health, lost, asked, faults>>
      /\ job[a].pc = "stored"
  BY DEF CheckHealth
<1>2. PICK k : k = [job[a] EXCEPT !.pc = "checked", !.row = Checked(S)]
  OBVIOUS
<1>3. job' = [job EXCEPT ![a] = IdleJob] \/ job' = [job EXCEPT ![a] = k]
  BY <1>2 DEF CheckHealth
<1>4. k \in Jobs /\ SoundJob(k, files, clock, Kept)
  <2>1. S \in SUBSET Stored
    OBVIOUS
  <2> HIDE DEF S
  <2> QED BY <1>1, <1>2, <2>1, CheckedSound
<1>5. job' \in [Agents -> Jobs] /\ JobsSound' /\ FilesNotAhead' /\ Covered(health, Kept)'
  BY <1>1, <1>3, <1>4, GivesUp, JobChanges
<1> QED BY <1>1, <1>5 DEF BarInv, BarTypeOK

\* A verdict is saved.
LEMMA SaveKeeps ==
  ASSUME BarInv, NEW a \in Agents, SaveHealth(a)
  PROVE  BarInv'
<1>1. /\ UNCHANGED <<clock, files, broken, torn, lost, asked, faults>>
      /\ health' = job[a].row /\ job' = [job EXCEPT ![a] = IdleJob]
  BY DEF SaveHealth
<1>2. Kept' = Kept
  BY <1>1 DEF Kept, Stored
<1>3. job[a].row \in Rows /\ Covered(job[a].row, Kept)
  BY DEF BarInv, BarTypeOK, Jobs, JobsSound, SoundJob
<1>4. IdleJob \in Jobs /\ SoundJob(IdleJob, files, clock, Kept)
  <2>1. 1 \in Nat /\ "bars" \in Datasets /\ clock \in Nat
    BY DEF Datasets, BarInv, BarTypeOK
  <2> QED BY <2>1, EmptyJobs, EmptyJobsSound
<1>5. job' \in [Agents -> Jobs] /\ JobsSound'
  <2>1. job' \in [Agents -> Jobs] /\ \A r \in Agents : job'[r] = IF r = a THEN IdleJob ELSE job[r]
    BY <1>1, <1>4 DEF BarInv, BarTypeOK
  <2> QED BY <1>1, <1>2, <1>4, <2>1 DEF BarInv, JobsSound
<1>6. FilesNotAhead' /\ Covered(health, Kept)'
  BY <1>1, <1>2, <1>3 DEF BarInv, FilesNotAhead
<1> QED BY <1>1, <1>3, <1>5, <1>6 DEF BarInv, BarTypeOK

-----------------------------------------------------------------------------
(* A month's file is filled.                                                   *)

\* What a job that has just filled its month goes on with.
RestOf(j) ==
  IF j.todo \ {Min(j.todo)} = {}
  THEN [IdleJob EXCEPT !.pc = "stored", !.set = j.set, !.from = j.from, !.to = j.to]
  ELSE [j EXCEPT !.pc = "merging", !.todo = j.todo \ {Min(j.todo)}, !.copy = Empty,
                 !.shared = FALSE]

\* Filling a month replaces its bars, and nothing else, by those of the copy.
LEMMA FillEffects ==
  ASSUME BarTypeOK, NEW a \in Agents, FillMonth(a)
  PROVE  /\ job[a].pc = "opened"
         /\ files' \in [Datasets -> Closes]
         /\ \A d \in Datasets, b \in Bars :
              files'[d][b] = IF d = job[a].set /\ MonthOf(b) = Min(job[a].todo)
                             THEN job[a].copy[b] ELSE files[d][b]
         /\ Kept \subseteq Kept' /\ lost' \subseteq Bars
         /\ job'[a] = RestOf(job[a]) /\ DOMAIN job' = Agents
         /\ \A r \in Agents \ {a} :
              \/ job[r].pc \notin Ingesting /\ job'[r] = job[r]
              \/ \E s \in BOOLEAN : job'[r] = [job[r] EXCEPT !.overtaken = TRUE, !.shared = s]
         /\ broken' \subseteq broken /\ torn' \in BOOLEAN
         /\ UNCHANGED <<clock, health, asked, faults>>
<1> DEFINE j == job[a]
           month == Min(j.todo)
<1>1. /\ j \in Jobs /\ j.set \in Datasets /\ j.copy \in Closes
      /\ files \in [Datasets -> Closes]
  BY DEF BarTypeOK, Jobs
<1>2. files' = [files EXCEPT ![j.set] =
                  [b \in Bars |-> IF MonthOf(b) = month THEN j.copy[b] ELSE files[j.set][b]]]
  BY DEF FillMonth, InMonth, ThisMonth
<1> HIDE DEF month
<1>3. \A d \in Datasets, b \in Bars :
        files'[d][b] = IF d = j.set /\ MonthOf(b) = month THEN j.copy[b] ELSE files[d][b]
  <2> HIDE DEF j
  <2> QED BY <1>1, <1>2
<1>4. files' \in [Datasets -> Closes]
  <2> DEFINE new == [b \in Bars |-> IF MonthOf(b) = month THEN j.copy[b] ELSE files[j.set][b]]
  <2>1. new \in Closes
    <3>1. \A b \in Bars : j.copy[b] \in Nat /\ files[j.set][b] \in Nat
      BY <1>1 DEF Closes
    <3> HIDE DEF j
    <3> QED BY <3>1 DEF Closes
  <2>2. files' = [files EXCEPT ![j.set] = new]
    BY <1>2
  <2> HIDE DEF new, j
  <2> QED BY <1>1, <2>1, <2>2
<1>5. lost' = lost \cup {b \in Bars : j.set = "bars" /\ files["bars"][b] # NoBar
                                      /\ files'["bars"][b] = NoBar}
  BY DEF FillMonth
<1>6. Kept \subseteq Kept' /\ lost' \subseteq Bars
  <2>1. lost \subseteq lost'
    BY <1>5
  <2>2. ASSUME NEW b \in Stored PROVE b \in Kept'
    <3>1. b \in Bars /\ files["bars"][b] # NoBar /\ "bars" \in Datasets
      BY <2>2 DEF Stored, Datasets
    <3>2. CASE files'["bars"][b] # NoBar
      BY <3>1, <3>2 DEF Kept, Stored
    <3>3. CASE files'["bars"][b] = NoBar
      <4>1. j.set = "bars"
        BY <1>3, <3>1, <3>3
      <4>2. b \in lost'
        BY <1>5, <3>1, <3>3, <4>1
      <4> QED BY <4>2 DEF Kept
    <3> QED BY <3>2, <3>3
  <2>3. lost' \subseteq Bars
    BY <1>5 DEF BarTypeOK
  <2> QED BY <2>1, <2>2, <2>3 DEF Kept
<1>7. /\ job'[a] = RestOf(j) /\ DOMAIN job' = Agents
      /\ \A r \in Agents \ {a} :
           job'[r] = IF job[r].pc \notin {"fetching", "merging", "merged", "opened"} THEN job[r]
                     ELSE [job[r] EXCEPT !.overtaken = TRUE,
                                         !.shared = job[r].shared \/ r \in Rivals(a)]
  BY DEF FillMonth, RestOf, ThisMonth
<1>8. \A r \in Agents \ {a} :
        \/ job[r].pc \notin Ingesting /\ job'[r] = job[r]
        \/ \E s \in BOOLEAN : job'[r] = [job[r] EXCEPT !.overtaken = TRUE, !.shared = s]
  <2>1. SUFFICES ASSUME NEW r \in Agents \ {a}
                 PROVE  \/ job[r].pc \notin Ingesting /\ job'[r] = job[r]
                        \/ \E s \in BOOLEAN :
                             job'[r] = [job[r] EXCEPT !.overtaken = TRUE, !.shared = s]
    OBVIOUS
  <2>2. (job[r].shared \/ r \in Rivals(a)) \in BOOLEAN
    OBVIOUS
  <2> QED BY <1>7, <2>2 DEF Ingesting, Writing
<1>9. /\ broken' \subseteq broken /\ torn' \in BOOLEAN /\ j.pc = "opened"
      /\ UNCHANGED <<clock, health, asked, faults>>
  <2>1. PICK garbled \in BOOLEAN :
          /\ torn' = (torn \/ garbled)
          /\ broken' = IF garbled \/ Rivals(a) # {} THEN broken ELSE broken \ {File(a)}
    BY DEF FillMonth
  <2> QED BY <2>1 DEF FillMonth
<1> QED BY <1>3, <1>4, <1>6, <1>7, <1>8, <1>9 DEF month

\* A job that was not overtaken fills its month with closes that are no older, but
\* for a part.
LEMMA FillImproves ==
  ASSUME BarInv, NEW a \in Agents, FillMonth(a), ~job[a].overtaken,
         NEW d \in Datasets, NEW b \in Bars, d = job[a].set => ~Cut(job[a], b)
  PROVE  /\ files[d][b] <= files'[d][b]
         /\ d = job[a].set /\ job[a].got[b] # NoBar => files'[d][b] <= job[a].got[b]
<1> DEFINE j == job[a]
<1>1. /\ j.pc = "opened" /\ j \in Jobs /\ SoundJob(j, files, clock, Kept)
      /\ files'[d][b] = IF d = j.set /\ MonthOf(b) = Min(j.todo) THEN j.copy[b] ELSE files[d][b]
  <2>1. BarTypeOK /\ j \in Jobs /\ SoundJob(j, files, clock, Kept)
    BY DEF BarInv, BarTypeOK, JobsSound
  <2> QED BY <2>1, FillEffects
<1>2. files[d][b] \in Nat /\ j.got[b] \in Nat
  BY <1>1 DEF BarInv, BarTypeOK, Jobs, Closes
<1>3. Alone(j)
  BY <1>1 DEF Alone, Ingesting, Writing
<1>7. d = j.set => ~Cut(j, b)
  OBVIOUS
<1> HIDE DEF j
<1>4. d = j.set /\ j.got[b] # NoBar => files[j.set][b] <= j.got[b]
  BY <1>1, <1>3, <1>7 DEF SoundJob, GotIsNewer
<1>5. MonthOf(b) = Min(j.todo) =>
        j.copy[b] = IF j.got[b] # NoBar THEN j.got[b] ELSE files[j.set][b]
  BY <1>1, <1>3 DEF SoundJob, CopyIsMerged
<1>6. /\ files[d][b] <= files'[d][b]
      /\ d = j.set /\ j.got[b] # NoBar => files'[d][b] <= j.got[b]
  BY <1>1, <1>2, <1>4, <1>5
<1> QED BY <1>6 DEF j

\* What the job goes on with is sound among the files it has changed.
LEMMA RestSound ==
  ASSUME BarInv, NEW a \in Agents, FillMonth(a)
  PROVE  RestOf(job[a]) \in Jobs /\ SoundJob(RestOf(job[a]), files', clock, Kept')
<1> DEFINE j == job[a]
           k == [j EXCEPT !.pc = "merging", !.todo = j.todo \ {Min(j.todo)}, !.copy = Empty,
                          !.shared = FALSE]
           s == [IdleJob EXCEPT !.pc = "stored", !.set = j.set, !.from = j.from, !.to = j.to]
<1>1. /\ j \in Jobs /\ SoundJob(j, files, clock, Kept) /\ j.pc = "opened"
      /\ clock \in Nat /\ Kept \subseteq Kept' /\ j.set \in Datasets
  BY FillEffects DEF BarInv, BarTypeOK, JobsSound, Jobs
<1>2. s \in Jobs /\ SoundJob(s, files', clock, Kept')
  <2>1. j.from \in Nat /\ j.to \in Nat
    BY <1>1 DEF Jobs
  <2>2. s \in Jobs
    <3> HIDE DEF j
    <3>1. 1 \in Nat
      OBVIOUS
    <3> QED BY <1>1, <2>1, <3>1, EmptyJobs
  <2>3. SoundJob(s, files', clock, Kept')
    BY <1>1, EmptyJobsSound
  <2> QED BY <2>2, <2>3
<1>3. /\ k \in Jobs /\ k.pc = "merging" /\ k.todo = j.todo \ {Min(j.todo)} /\ k.copy = Empty
      /\ k.set = j.set /\ k.got = j.got /\ k.row = j.row /\ k.overtaken = j.overtaken
  <2>1. Empty \in Closes /\ j.todo \ {Min(j.todo)} \in SUBSET Bars
    BY <1>1, EmptyCloses DEF Jobs
  <2> HIDE DEF j
  <2> QED BY <1>1, <2>1 DEF Jobs, JobStages
<1>4. ASSUME j.todo \ {Min(j.todo)} # {} PROVE SoundJob(k, files', clock, Kept')
  <2>1. GotIsNewer(k, files')
    <3>1. SUFFICES ASSUME Alone(k), NEW b \in Bars, k.got[b] # NoBar, ~Cut(k, b)
                   PROVE  files'[k.set][b] <= k.got[b]
      BY DEF GotIsNewer
    <3>2. ~job[a].overtaken /\ job[a].got[b] # NoBar /\ ~Cut(job[a], b)
      BY <1>3, <3>1 DEF Alone, Cut
    <3>3. files'[j.set][b] <= j.got[b]
      BY <1>1, <3>2, FillImproves
    <3> QED BY <1>3, <3>3
  <2>2. CopyIsMerged(k, files')
    BY <1>3 DEF CopyIsMerged
  <2>3. NotAhead(k.got, clock) /\ NotAhead(k.copy, clock)
    BY <1>1, <1>3, EmptyCloses DEF SoundJob
  <2>4. Covered(k.row, Kept')
    <3>1. Covered(j.row, Kept)
      BY <1>1 DEF SoundJob
    <3> HIDE DEF j
    <3> QED BY <1>1, <1>3, <3>1, CoveredMore
  <2> HIDE DEF k
  <2>5. NothingSoFar(k)
    BY <1>3 DEF NothingSoFar
  <2> QED BY <1>3, <1>4, <2>1, <2>2, <2>3, <2>4, <2>5 DEF SoundJob
<1>5. RestOf(j) = IF j.todo \ {Min(j.todo)} = {} THEN s ELSE k
  BY DEF RestOf
<1> HIDE DEF k, s
<1> QED BY <1>2, <1>3, <1>4, <1>5

\* Whoever has begun is overtaken, and whoever has not does not look.
LEMMA OvertakenSound ==
  ASSUME BarInv, NEW a \in Agents, FillMonth(a), NEW r \in Agents \ {a}
  PROVE  job'[r] \in Jobs /\ SoundJob(job'[r], files', clock, Kept')
<1> DEFINE j == job[r]
<1>1. /\ j \in Jobs /\ SoundJob(j, files, clock, Kept) /\ clock \in Nat
      /\ Kept \subseteq Kept'
      /\ \/ j.pc \notin Ingesting /\ job'[r] = j
         \/ \E s \in BOOLEAN : job'[r] = [j EXCEPT !.overtaken = TRUE, !.shared = s]
  BY FillEffects DEF BarInv, BarTypeOK, JobsSound
<1> HIDE DEF j
<1>2. CASE j.pc \notin Ingesting /\ job'[r] = j
  <2>1. ~Alone(j)
    BY <1>2 DEF Alone
  <2>2. SoundJob(j, files', clock, Kept)
    BY <1>1, <2>1, SoundUnlessAlone
  <2>3. clock <= clock
    BY DEF BarInv, BarTypeOK
  <2> QED BY <1>1, <1>2, <2>2, <2>3, SoundLater
<1>3. ASSUME NEW s \in BOOLEAN, job'[r] = [j EXCEPT !.overtaken = TRUE, !.shared = s]
      PROVE  job'[r] \in Jobs /\ SoundJob(job'[r], files', clock, Kept')
  <2>1. PICK k : k = [j EXCEPT !.overtaken = TRUE, !.shared = s]
    OBVIOUS
  <2>2. /\ k \in Jobs /\ k.pc = j.pc /\ k.todo = j.todo /\ k.copy = j.copy /\ k.overtaken
        /\ k.set = j.set /\ k.got = j.got /\ k.row = j.row
    BY <1>1, <2>1 DEF Jobs
  <2>3. ~Alone(k)
    BY <2>2 DEF Alone
  <2>4. SoundJob(k, files, clock, Kept)
    BY <1>1, <2>2, <2>3 DEF SoundJob, GotIsNewer, CopyIsMerged, NothingSoFar
  <2>5. SoundJob(k, files', clock, Kept)
    BY <1>1, <2>2, <2>3, <2>4, SoundUnlessAlone
  <2>6. clock <= clock
    BY DEF BarInv, BarTypeOK
  <2>7. SoundJob(k, files', clock, Kept')
    BY <1>1, <2>2, <2>5, <2>6, SoundLater
  <2> QED BY <1>3, <2>1, <2>2, <2>7
<1> QED BY <1>1, <1>2, <1>3

\* A month's file is filled.
LEMMA FillKeeps ==
  ASSUME BarInv, NEW a \in Agents, FillMonth(a)
  PROVE  BarInv'
<1>1. /\ files' \in [Datasets -> Closes] /\ Kept \subseteq Kept' /\ lost' \subseteq Bars
      /\ job'[a] = RestOf(job[a]) /\ DOMAIN job' = Agents
      /\ broken' \subseteq broken /\ torn' \in BOOLEAN
      /\ UNCHANGED <<clock, health, asked, faults>>
      /\ \A d \in Datasets, b \in Bars :
           files'[d][b] = IF d = job[a].set /\ MonthOf(b) = Min(job[a].todo)
                          THEN job[a].copy[b] ELSE files[d][b]
  BY FillEffects DEF BarInv
<1>2. \A r \in Agents : job'[r] \in Jobs /\ SoundJob(job'[r], files', clock, Kept')
  BY <1>1, RestSound, OvertakenSound
<1>3. job' \in [Agents -> Jobs]
  <2>1. job' = [r \in Agents |-> job'[r]]
    BY DEF FillMonth
  <2> QED BY <1>2, <2>1
<1>4. BarTypeOK'
  BY <1>1, <1>3 DEF BarInv, BarTypeOK
<1>5. JobsSound'
  BY <1>1, <1>2 DEF JobsSound
<1>6. FilesNotAhead'
  <2>1. SUFFICES ASSUME NEW d \in Datasets, NEW b \in Bars
                 PROVE  files'[d][b] <= AnswerAt(b, clock)
    BY <1>1 DEF FilesNotAhead, NotAhead
  <2>2. files'[d][b] = IF d = job[a].set /\ MonthOf(b) = Min(job[a].todo)
                       THEN job[a].copy[b] ELSE files[d][b]
    BY <1>1, <2>1
  <2>3. job[a].copy[b] <= AnswerAt(b, clock)
    BY DEF BarInv, JobsSound, SoundJob, NotAhead
  <2>4. files[d][b] <= AnswerAt(b, clock)
    BY DEF BarInv, FilesNotAhead, NotAhead
  <2> QED BY <2>2, <2>3, <2>4
<1>7. Covered(health, Kept)'
  <2>1. Covered(health, Kept)
    BY DEF BarInv
  <2>2. Covered(health, Kept')
    BY <1>1, <2>1, CoveredMore
  <2> QED BY <1>1, <2>2
<1> QED BY <1>4, <1>5, <1>6, <1>7 DEF BarInv

\* Every step keeps the invariant.
LEMMA BarStep == BarInv /\ [BarNext]_barVars => BarInv'
<1> SUFFICES ASSUME BarInv, [BarNext]_barVars PROVE BarInv'
  OBVIOUS
<1>1. CASE Tick
  BY <1>1, TickKeeps
<1>2. ASSUME NEW a \in Agents, NEW d \in Datasets, NEW n \in Lookbacks, StartIngest(a, d, n)
      PROVE  BarInv'
  BY <1>2, StartIngestKeeps
<1>3. ASSUME NEW a \in Agents, StartCheck(a) PROVE BarInv'
  BY <1>3, StartCheckKeeps
<1>4. ASSUME NEW a \in Agents, JobStep(a) PROVE BarInv'
  BY <1>4, FetchKeeps, ReadKeeps, OpenKeeps, FillKeeps, LeaveKeeps, CheckKeeps, SaveKeeps
     DEF JobStep
<1>5. ASSUME NEW a \in Agents, FetchFails(a) \/ Dies(a) PROVE BarInv'
  BY <1>5, LeaveKeeps, DiesKeeps
<1>6. CASE UNCHANGED barVars
  <2>1. Kept' = Kept
    BY <1>6 DEF barVars, Kept, Stored
  <2> QED BY <1>6, <2>1 DEF barVars, BarInv, BarTypeOK, JobsSound, FilesNotAhead
<1> QED BY <1>1, <1>2, <1>3, <1>4, <1>5, <1>6 DEF BarNext

-----------------------------------------------------------------------------
(* What the steps do to the other jobs, and to the files that are being written. *)

\* A file that cannot be read is being written, or was left so.
Unreadable ==
  \A f \in broken : torn \/ \E a \in Agents : job[a].pc = "opened" /\ File(a) = f

\* Only a job that opens a file makes it unreadable.  While a job holds a file
\* open, it stays so until the job fills it or its process dies.
LEMMA OpenedStays ==
  ASSUME BarInv, [BarNext]_barVars, NEW r \in Agents, job[r].pc = "opened"
  PROVE  \/ torn'
         \/ FillMonth(r)
         \/ job'[r].pc = "opened" /\ job'[r].set = job[r].set /\ job'[r].todo = job[r].todo
<1>1. job \in [Agents -> Jobs] /\ job[r] \in Jobs
  BY DEF BarInv, BarTypeOK
<1> DEFINE Same == job'[r].pc = "opened" /\ job'[r].set = job[r].set /\ job'[r].todo = job[r].todo
<1> SUFFICES ASSUME ~torn', ~FillMonth(r) PROVE Same
  OBVIOUS
<1>2. ASSUME UNCHANGED job PROVE Same
  BY <1>2
<1>3. ASSUME NEW a \in Agents, a # r, NEW k, job' = [job EXCEPT ![a] = k] PROVE Same
  BY <1>1, <1>3
<1>4. CASE Tick
  BY <1>2, <1>4 DEF Tick
<1>5. ASSUME NEW a \in Agents, NEW d \in Datasets, NEW n \in Lookbacks, StartIngest(a, d, n)
      PROVE  Same
  <2>1. a # r
    BY <1>5 DEF StartIngest, MayStart
  <2>2. \E k : job' = [job EXCEPT ![a] = k]
    BY <1>5 DEF StartIngest
  <2> QED BY <1>3, <2>1, <2>2
<1>6. ASSUME NEW a \in Agents, StartCheck(a) PROVE Same
  <2>1. a # r
    BY <1>6 DEF StartCheck, MayStart
  <2>2. \E k : job' = [job EXCEPT ![a] = k]
    BY <1>6 DEF StartCheck
  <2> QED BY <1>3, <2>1, <2>2
<1>7. ASSUME NEW a \in Agents, FetchPage(a) \/ FetchAll(a) \/ FetchFails(a) PROVE Same
  <2>1. a # r
    BY <1>7 DEF FetchPage, FetchAll, FetchFails
  <2>2. \E k : job' = [job EXCEPT ![a] = k]
    BY <1>7 DEF FetchPage, FetchAll, FetchFails
  <2> QED BY <1>3, <2>1, <2>2
<1>8. ASSUME NEW a \in Agents, ReadMonth(a) PROVE Same
  <2>1. a # r
    BY <1>8 DEF ReadMonth
  <2>2. job' = [job EXCEPT ![a] = IdleJob] \/ job' = [job EXCEPT ![a] = MergedJob(a)]
    BY <1>8 DEF ReadMonth, MergedJob
  <2> QED BY <1>3, <2>1, <2>2
<1>9. ASSUME NEW a \in Agents, OpenMonth(a) PROVE Same
  <2>1. a # r
    BY <1>9 DEF OpenMonth
  <2>2. job' = [job EXCEPT ![a] = [job[a] EXCEPT !.pc = "opened"]]
    BY <1>9 DEF OpenMonth
  <2> QED BY <1>3, <2>1, <2>2
<1>10. ASSUME NEW a \in Agents, FinishContext(a) \/ CheckHealth(a) \/ SaveHealth(a) PROVE Same
  <2>1. a # r
    BY <1>10 DEF FinishContext, CheckHealth, SaveHealth
  <2>2. \E k : job' = [job EXCEPT ![a] = k]
    BY <1>10 DEF FinishContext, CheckHealth, SaveHealth
  <2> QED BY <1>3, <2>1, <2>2
<1>11. ASSUME NEW a \in Agents, Dies(a) PROVE Same
  <2>1. r \notin Process(a)
    BY <1>11 DEF Dies
  <2> QED BY <1>11, <2>1 DEF Dies
<1>12. ASSUME NEW a \in Agents, FillMonth(a) PROVE Same
  <2>1. CASE a = r
    BY <1>12, <2>1
  <2>2. CASE a # r
    <3>1. job[r].pc \in Ingesting
      BY DEF Ingesting, Writing
    <3>2. PICK s \in BOOLEAN : job'[r] = [job[r] EXCEPT !.overtaken = TRUE, !.shared = s]
      BY <1>12, <2>2, <3>1, FillEffects DEF BarInv
    <3> QED BY <1>1, <3>2 DEF Jobs
  <2> QED BY <2>1, <2>2
<1>13. CASE UNCHANGED barVars
  BY <1>2, <1>13 DEF barVars
<1> HIDE DEF Same
<1>14. ASSUME NEW a \in Agents, JobStep(a) PROVE Same
  BY <1>7, <1>8, <1>9, <1>10, <1>12, <1>14 DEF JobStep
<1> QED BY <1>4, <1>5, <1>6, <1>7, <1>11, <1>13, <1>14 DEF BarNext

\* What makes a file unreadable is open, and what is open stays so or is filled.
LEMMA UnreadableStep == BarInv /\ Unreadable /\ [BarNext]_barVars => Unreadable'
<1> SUFFICES ASSUME BarInv, Unreadable, [BarNext]_barVars, NEW f \in broken', ~torn'
             PROVE  \E a \in Agents : job'[a].pc = "opened" /\ File(a)' = f
  BY DEF Unreadable
<1>1. torn => torn'
  BY DEF BarNext, Tick, StartIngest, StartCheck, JobStep, FetchPage, FetchAll, FetchFails,
         ReadMonth, OpenMonth, FillMonth, FinishContext, CheckHealth, SaveHealth, Dies, barVars
<1>2. ASSUME NEW r \in Agents, job[r].pc = "opened", File(r) = f, ~FillMonth(r)
      PROVE  job'[r].pc = "opened" /\ File(r)' = f
  <2>1. job'[r].pc = "opened" /\ job'[r].set = job[r].set /\ job'[r].todo = job[r].todo
    BY <1>2, OpenedStays
  <2> QED BY <1>2, <2>1 DEF File, ThisMonth
<1>3. CASE f \in broken
  <2>1. PICK r \in Agents : job[r].pc = "opened" /\ File(r) = f
    BY <1>1, <1>3 DEF Unreadable
  <2>2. CASE ~FillMonth(r)
    BY <1>2, <2>1, <2>2
  <2>3. CASE FillMonth(r)
    <3>1. Rivals(r) # {}
      BY <2>1, <2>3 DEF FillMonth
    <3>2. PICK q \in Agents \ {r} : job[q].pc = "opened" /\ File(q) = f
      BY <2>1, <3>1 DEF Rivals
    <3>3. PICK s \in BOOLEAN : job'[q] = [job[q] EXCEPT !.overtaken = TRUE, !.shared = s]
      <4>1. job[q].pc \in Ingesting
        BY <3>2 DEF Ingesting, Writing
      <4> QED BY <2>3, <4>1, FillEffects DEF BarInv
    <3>4. job'[q].pc = "opened" /\ job'[q].set = job[q].set /\ job'[q].todo = job[q].todo
      BY <3>2, <3>3 DEF BarInv, BarTypeOK, Jobs
    <3> QED BY <3>2, <3>4 DEF File, ThisMonth
  <2> QED BY <2>2, <2>3
<1>4. CASE f \notin broken
  <2>1. PICK a \in Agents : OpenMonth(a) /\ f = File(a)
    BY <1>4 DEF BarNext, Tick, StartIngest, StartCheck, JobStep, FetchPage, FetchAll, FetchFails,
         ReadMonth, OpenMonth, FillMonth, FinishContext, CheckHealth, SaveHealth, Dies, barVars
  <2>2. job' = [job EXCEPT ![a] = [job[a] EXCEPT !.pc = "opened"]]
    BY <2>1 DEF OpenMonth
  <2>3. job'[a].pc = "opened" /\ job'[a].set = job[a].set /\ job'[a].todo = job[a].todo
    BY <2>2 DEF BarInv, BarTypeOK, Jobs
  <2> QED BY <2>1, <2>3 DEF File, ThisMonth
<1> QED BY <1>3, <1>4

-----------------------------------------------------------------------------
(* The theorems about stored bars.                                             *)

\* The initial state has no files; every step but the filling of one leaves them.
LEMMA OnlyFillWrites ==
  ASSUME [BarNext]_barVars, \A a \in Agents : ~FillMonth(a)
  PROVE  files' = files /\ lost' = lost
BY DEF BarNext, Tick, StartIngest, StartCheck, JobStep, FetchPage, FetchAll, FetchFails,
       ReadMonth, OpenMonth, FinishContext, CheckHealth, SaveHealth, Dies, barVars

\* Where the writer was not overtaken, and writes no part, no stored close gets earlier.
LEMMA FilesImprove ==
  ASSUME BarInv, [BarNext]_barVars, NEW d \in Datasets, NEW b \in Bars,
         \A a \in Agents : FillMonth(a) /\ job[a].set = d =>
                            ~job[a].overtaken /\ ~Cut(job[a], b)
  PROVE  files[d][b] <= files'[d][b]
<1>1. CASE \A a \in Agents : ~FillMonth(a)
  <2>1. files[d][b] \in Nat
    BY DEF BarInv, BarTypeOK, Closes
  <2> QED BY <1>1, <2>1, OnlyFillWrites
<1>2. ASSUME NEW a \in Agents, FillMonth(a) PROVE files[d][b] <= files'[d][b]
  <2>1. CASE job[a].set = d
    BY <1>2, <2>1, FillImproves
  <2>2. CASE job[a].set # d
    <3>1. files'[d][b] = IF d = job[a].set /\ MonthOf(b) = Min(job[a].todo)
                         THEN job[a].copy[b] ELSE files[d][b]
      <4>1. BarTypeOK
        BY DEF BarInv
      <4> QED BY <1>2, <4>1, FillEffects
    <3>2. files[d][b] \in Nat
      BY DEF BarInv, BarTypeOK, Closes
    <3> QED BY <2>2, <3>1, <3>2
  <2> QED BY <2>1, <2>2
<1> QED BY <1>1, <1>2

\* The tables of the store keep their types: months of files that cannot be read
\* are months of bars, and a job's answers and copies are closes.
THEOREM BarTypeCorrect == BarSpec => []BarTypeOK
<1>1. BarInv => BarTypeOK
  BY DEF BarInv
<1> QED BY <1>1, BarInitial, BarStep, PTL DEF BarSpec

\* For any agents, lookbacks and page limits: a dataset reported healthy has every
\* bar between the first and the last the check has seen, unless a write of two
\* processes at once has dropped it since (check_dataset and save_dataset_health,
\* beside write_bars).
THEOREM HealthyVerdictsHold == BarSpec => []HealthyIsTrue
<1>1. BarInv => HealthyIsTrue
  BY DEF BarInv, Covered, Kept, HealthyIsTrue
<1> QED BY <1>1, BarInitial, BarStep, PTL DEF BarSpec

ImprovesUnlessOvertaken ==
  \A d \in Datasets, b \in Bars :
    files'[d][b] < files[d][b] =>
      \E a \in Agents : /\ job[a].pc = "opened" /\ job[a].set = d
                        /\ job[a].overtaken \/ Cut(job[a], b)

\* For any agents: a stored close gets earlier, or a stored bar vanishes, only where
\* the writer was overtaken by another ingestion since it began, or, of the context,
\* writes a part (write_bars and its likes).
THEOREM BarsImprove == BarSpec => BarsOnlyImprove
<1>1. BarInv /\ [BarNext]_barVars => [ImprovesUnlessOvertaken]_barVars
  <2>1. SUFFICES ASSUME BarInv, [BarNext]_barVars, NEW d \in Datasets, NEW b \in Bars,
                        files'[d][b] < files[d][b],
                        \A a \in Agents : ~(/\ job[a].pc = "opened" /\ job[a].set = d
                                            /\ job[a].overtaken \/ Cut(job[a], b))
                 PROVE  FALSE
    BY DEF ImprovesUnlessOvertaken
  <2>2. \A a \in Agents : FillMonth(a) /\ job[a].set = d => ~job[a].overtaken /\ ~Cut(job[a], b)
    BY <2>1 DEF FillMonth
  <2>3. files[d][b] <= files'[d][b]
    BY <2>1, <2>2, FilesImprove
  <2>4. files[d][b] \in Nat /\ files'[d][b] \in Nat
    <3>1. BarInv'
      BY <2>1, BarStep
    <3> QED BY <2>1, <3>1 DEF BarInv, BarTypeOK, Closes
  <2> QED BY <2>1, <2>3, <2>4
<1>2. BarSpec => [][ImprovesUnlessOvertaken]_barVars
  BY <1>1, BarInitial, BarStep, PTL DEF BarSpec
<1> QED BY <1>2 DEF ImprovesUnlessOvertaken, BarsOnlyImprove

\* No stored close is later than the bar's end, or than the time.
THEOREM NoCloseFromTheFuture == BarSpec => [](\A b \in Bars : files["bars"][b] <= Close(b))
<1>1. BarInv => \A b \in Bars : files["bars"][b] <= Close(b)
  BY AnswerIsLatest DEF BarInv, FilesNotAhead, NotAhead, Datasets
<1> QED BY <1>1, BarInitial, BarStep, PTL DEF BarSpec

Final(b) == files["bars"][b] = b * TicksPerBar
FinalStays ==
  \A b \in Bars :
    Final(b) =>
      \/ Final(b)'
      \/ \E a \in Agents : job[a].pc = "opened" /\ job[a].set = "bars" /\ job[a].overtaken

\* A bar that is stored with its final close has it for good, for no answer is
\* later -- unless a writer was overtaken, who may write an unfinished one again.
THEOREM FinalClosesStay == BarSpec => [][FinalStays]_barVars
<1>1. BarInv /\ [BarNext]_barVars => [FinalStays]_barVars
  <2>1. SUFFICES ASSUME BarInv, [BarNext]_barVars, NEW b \in Bars, Final(b),
                        \A a \in Agents : ~(/\ job[a].pc = "opened" /\ job[a].set = "bars"
                                            /\ job[a].overtaken)
                 PROVE  files'["bars"][b] = b * TicksPerBar
    BY DEF FinalStays, Final
  <2> DEFINE end == b * TicksPerBar
             new == files'["bars"][b]
  <2>2. "bars" \in Datasets /\ BarInv'
    BY <2>1, BarStep DEF Datasets
  <2>3. files["bars"][b] <= new
    <3>1. \A a \in Agents : FillMonth(a) /\ job[a].set = "bars" =>
                              ~job[a].overtaken /\ ~Cut(job[a], b)
      BY <2>1 DEF FillMonth, Cut
    <3> QED BY <2>1, <2>2, <3>1, FilesImprove
  <2>4. new \in Nat /\ clock' \in Nat /\ new <= AnswerAt(b, clock')
    BY <2>1, <2>2 DEF BarInv, BarTypeOK, Closes, FilesNotAhead, NotAhead
  <2>5. b \in Nat /\ TicksPerBar \in Nat
    BY BarsAreNumbers, BarAssumption
  <2>6. end \in Nat
    BY <2>5
  <2>7. AnswerAt(b, clock') = IF clock' < end THEN clock' ELSE end
    BY DEF AnswerAt
  <2>8. files["bars"][b] = end
    BY <2>1 DEF Final
  <2> HIDE DEF end, new
  <2>9. new = end
    BY <2>3, <2>4, <2>6, <2>7, <2>8
  <2> QED BY <2>9 DEF end, new
<1> QED BY <1>1, BarInitial, BarStep, PTL DEF BarSpec

\* A month's file that cannot be read is being written at this moment, unless a
\* process died while it was writing, or two wrote at once (to_parquet).
THEOREM UnreadableIsBeingWritten == BarSpec => []Unreadable
<1>1. BarInit => Unreadable
  BY DEF BarInit, Unreadable
<1> QED BY <1>1, UnreadableStep, BarInitial, BarStep, PTL DEF BarSpec

-----------------------------------------------------------------------------
(* One event loop.                                                             *)

\* Of the agents of an event loop at most one is between two awaits.
OneAtATime == \A a \in Agents : Awaits(a) \/ Turn(a)

\* Whoever shares a loop shares it both ways.
LEMMA LoopsAreShared ==
  ASSUME NEW a \in Agents, NEW r \in Loop(a)
  PROVE  Loop(r) = Loop(a) /\ r \in Agents
<1>1. CASE a \in Crons
  BY <1>1 DEF Loop, Agents
<1>2. CASE a \in Requests
  BY <1>2, BarAssumption DEF Loop, Agents
<1>3. CASE a \notin Crons /\ a \notin Requests
  BY <1>3 DEF Loop, Agents
<1> QED BY <1>1, <1>2, <1>3

\* While the others only go on waiting, the loop is the agent's that has its turn.
LEMMA TurnTaken ==
  ASSUME OneAtATime, NEW a \in Agents, Turn(a),
         \A r \in Agents \ {a} : job'[r].pc = job[r].pc
  PROVE  OneAtATime'
<1>1. SUFFICES ASSUME NEW x \in Agents, ~Awaits(x)', NEW r \in Loop(x) \ {x} PROVE Awaits(r)'
  BY DEF OneAtATime, Turn, Loop
<1>2. r \in Agents /\ Loop(r) = Loop(x)
  BY <1>1, LoopsAreShared
<1>3. CASE x = a
  BY <1>1, <1>2, <1>3 DEF Turn, Awaits
<1>4. CASE x # a
  <2>1. ~Awaits(x)
    BY <1>1, <1>4 DEF Awaits
  <2>2. Awaits(r)
    BY <1>1, <2>1 DEF OneAtATime, Turn
  <2>3. r # a
    <3>1. SUFFICES ASSUME r = a PROVE FALSE
      OBVIOUS
    <3>2. x \in Loop(a) \ {a}
      BY <1>2, <1>4, <3>1 DEF Loop
    <3> QED BY <2>1, <3>2 DEF Turn
  <2> QED BY <1>2, <2>2, <2>3 DEF Awaits
<1> QED BY <1>3, <1>4

\* Every step of an agent is taken in its turn, or between two awaits.
LEMMA StepsTakeTurns ==
  ASSUME BarInv, NEW a \in Agents,
         \/ JobStep(a) \/ FetchFails(a) \/ StartCheck(a)
         \/ \E d \in Datasets, n \in Lookbacks : StartIngest(a, d, n)
  PROVE  (Turn(a) \/ ~Awaits(a)) /\ \A r \in Agents \ {a} : job'[r].pc = job[r].pc
<1>1. job \in [Agents -> Jobs]
  BY DEF BarInv, BarTypeOK
<1>2. CASE FillMonth(a)
  <2>1. /\ job[a].pc = "opened"
        /\ \A r \in Agents \ {a} :
              \/ job[r].pc \notin Ingesting /\ job'[r] = job[r]
              \/ \E s \in BOOLEAN : job'[r] = [job[r] EXCEPT !.overtaken = TRUE, !.shared = s]
    BY <1>2, FillEffects DEF BarInv
  <2>2. \A r \in Agents \ {a} : job'[r].pc = job[r].pc
    BY <1>1, <2>1 DEF Jobs
  <2> QED BY <2>1, <2>2 DEF Awaits
<1>3. CASE ~FillMonth(a)
  <2>1. \E k : job' = [job EXCEPT ![a] = k]
    BY <1>3 DEF JobStep, FetchPage, FetchAll, ReadMonth, OpenMonth, FinishContext, CheckHealth,
       SaveHealth, FetchFails, StartCheck, StartIngest
  <2>2. \A r \in Agents \ {a} : job'[r].pc = job[r].pc
    BY <1>1, <2>1
  <2>3. Turn(a) \/ ~Awaits(a)
    BY <1>3 DEF JobStep, FetchPage, FetchAll, ReadMonth, OpenMonth, FinishContext, CheckHealth,
       SaveHealth, FetchFails, StartCheck, StartIngest, MayStart, Awaits
  <2> QED BY <2>2, <2>3
<1> QED BY <1>2, <1>3

\* No two agents of a loop are between two awaits.
LEMMA TurnsStep ==
  ASSUME BarInv, OneAtATime, [BarNext]_barVars
  PROVE  OneAtATime'
<1>1. ASSUME NEW a \in Agents,
             \/ JobStep(a) \/ FetchFails(a) \/ StartCheck(a)
             \/ \E d \in Datasets, n \in Lookbacks : StartIngest(a, d, n)
      PROVE  OneAtATime'
  <2>1. (Turn(a) \/ ~Awaits(a)) /\ \A r \in Agents \ {a} : job'[r].pc = job[r].pc
    BY <1>1, StepsTakeTurns
  <2>2. Turn(a)
    BY <2>1 DEF OneAtATime
  <2> QED BY <2>1, <2>2, TurnTaken
<1>2. ASSUME \A r \in Agents : Awaits(r) => Awaits(r)' PROVE OneAtATime'
  <2>1. SUFFICES ASSUME NEW x \in Agents, ~Awaits(x)', NEW r \in Loop(x) \ {x} PROVE Awaits(r)'
    BY DEF OneAtATime, Turn, Loop
  <2>2. r \in Agents /\ ~Awaits(x)
    BY <1>2, <2>1, LoopsAreShared
  <2> QED BY <1>2, <2>1, <2>2 DEF OneAtATime, Turn
<1>3. ASSUME NEW a \in Agents, Dies(a) PROVE OneAtATime'
  <2>1. \A r \in Agents : Awaits(r) => Awaits(r)'
    BY <1>3 DEF Dies, Awaits, IdleJob
  <2> QED BY <1>2, <2>1
<1>4. CASE Tick \/ UNCHANGED barVars
  <2>1. \A r \in Agents : Awaits(r) => Awaits(r)'
    BY <1>4 DEF Tick, barVars, Awaits
  <2> QED BY <1>2, <2>1
<1> QED BY <1>1, <1>3, <1>4 DEF BarNext

\* A copy of a month is what was fetched, and of the rest what is stored now.
Current(j, fs) ==
  j.pc \in {"merged", "opened"} =>
    \A b \in Bars : MonthOf(b) = Min(j.todo) =>
      j.copy[b] = IF j.got[b] # NoBar THEN j.got[b] ELSE fs[j.set][b]
CopiesAreCurrent == \A a \in Agents : Current(job[a], files)

HealthyIsStored == health.quality = "healthy" => \A b \in health.first..health.last : b \in Stored

Held(r) ==
  \/ job'[r] = job[r]
  \/ job'[r] = MergedJob(r)
  \/ job[r].pc = "merged" /\ job'[r] = [job[r] EXCEPT !.pc = "opened"]

\* Who holds a copy has held it, or has just made it.
LEMMA HoldersOfCopies ==
  ASSUME BarInv, [BarNext]_barVars, \A a \in Agents : ~FillMonth(a),
         NEW r \in Agents, job'[r].pc \in {"merged", "opened"}
  PROVE  Held(r)
<1>1. job \in [Agents -> Jobs] /\ IdleJob.pc = "idle"
  BY DEF BarInv, BarTypeOK, IdleJob
<1>2. ASSUME UNCHANGED job PROVE Held(r)
  BY <1>2 DEF Held
<1>3. ASSUME NEW a \in Agents, NEW k, job' = [job EXCEPT ![a] = k],
             a = r /\ k.pc \in {"merged", "opened"} =>
               \/ k = MergedJob(r)
               \/ job[r].pc = "merged" /\ k = [job[r] EXCEPT !.pc = "opened"]
      PROVE  Held(r)
  <2>1. CASE a = r
    BY <1>1, <1>3, <2>1 DEF Held
  <2>2. CASE a # r
    BY <1>1, <1>3, <2>2 DEF Held
  <2> QED BY <2>1, <2>2
<1>4. ASSUME NEW a \in Agents, NEW d \in Datasets, NEW n \in Lookbacks, StartIngest(a, d, n)
      PROVE  Held(r)
  <2> DEFINE from == IF BarAt(clock) > n THEN BarAt(clock) - n ELSE 1
             f == [IdleJob EXCEPT !.pc = "fetching", !.set = d, !.from = from,
                                  !.to = BarAt(clock), !.cursor = from]
  <2>1. job' = [job EXCEPT ![a] = f]
    BY <1>4 DEF StartIngest
  <2>2. f.pc = "fetching"
    BY DEF IdleJob
  <2> HIDE DEF f
  <2> QED BY <1>3, <2>1, <2>2
<1>5. ASSUME NEW a \in Agents, StartCheck(a) PROVE Held(r)
  <2> DEFINE s == [IdleJob EXCEPT !.pc = "stored", !.to = BarAt(clock)]
  <2>1. job' = [job EXCEPT ![a] = s]
    BY <1>5 DEF StartCheck
  <2>2. s.pc = "stored"
    BY DEF IdleJob
  <2> HIDE DEF s
  <2> QED BY <1>3, <2>1, <2>2
<1>6. ASSUME NEW a \in Agents, job' = [job EXCEPT ![a] = IdleJob] PROVE Held(r)
  BY <1>1, <1>3, <1>6
<1>7. ASSUME NEW a \in Agents, FetchPage(a) \/ FetchAll(a) PROVE Held(r)
  <2>1. PICK chunk, finished, part :
          job' = [job EXCEPT ![a] = Fetched(job[a], chunk, finished, part)]
    <3>1. CASE FetchPage(a)
      BY <3>1 DEF FetchPage
    <3>2. CASE FetchAll(a)
      <4>1. PICK chunk, part : job' = [job EXCEPT ![a] = Fetched(job[a], chunk, TRUE, part)]
        BY <3>2 DEF FetchAll
      <4> QED BY <4>1
    <3> QED BY <1>7, <3>1, <3>2
  <2> DEFINE got == Answered(job[a], chunk, part)
             todo == {MonthOf(b) : b \in {c \in Bars : got[c] # NoBar}}
             cursor == IF finished THEN 1 ELSE Max(chunk) + 1
             pc == IF ~finished THEN "fetching" ELSE IF todo = {} THEN "stored" ELSE "merging"
  <2>2. PICK k : k = Fetched(job[a], chunk, finished, part)
    OBVIOUS
  <2>3. k = [job[a] EXCEPT !.got = got, !.todo = todo, !.cursor = cursor, !.pc = pc]
    BY <2>2 DEF Fetched
  <2>4. pc \notin {"merged", "opened"}
    OBVIOUS
  <2> HIDE DEF got, todo, cursor, pc
  <2>5. k.pc = pc
    BY <1>1, <2>3 DEF Jobs
  <2> QED BY <1>3, <2>1, <2>2, <2>4, <2>5
<1>8. ASSUME NEW a \in Agents, ReadMonth(a) PROVE Held(r)
  <2>1. job' = [job EXCEPT ![a] = IdleJob] \/ job' = [job EXCEPT ![a] = MergedJob(a)]
    BY <1>8 DEF ReadMonth, MergedJob
  <2> QED BY <1>3, <1>6, <2>1
<1>9. ASSUME NEW a \in Agents, OpenMonth(a) PROVE Held(r)
  <2>1. job' = [job EXCEPT ![a] = [job[a] EXCEPT !.pc = "opened"]] /\ job[a].pc = "merged"
    BY <1>9 DEF OpenMonth
  <2> QED BY <1>3, <2>1
<1>10. ASSUME NEW a \in Agents, CheckHealth(a) PROVE Held(r)
  <2>1. PICK row : \/ job' = [job EXCEPT ![a] = IdleJob]
                   \/ job' = [job EXCEPT ![a] = [job[a] EXCEPT !.pc = "checked", !.row = row]]
    BY <1>10 DEF CheckHealth
  <2>2. [job[a] EXCEPT !.pc = "checked", !.row = row].pc = "checked"
    BY <1>1 DEF Jobs
  <2> QED BY <1>3, <1>6, <2>1, <2>2
<1>11. ASSUME NEW a \in Agents, FetchFails(a) \/ FinishContext(a) \/ SaveHealth(a) PROVE Held(r)
  BY <1>6, <1>11 DEF FetchFails, FinishContext, SaveHealth
<1>12. ASSUME NEW a \in Agents, Dies(a) PROVE Held(r)
  BY <1>1, <1>12 DEF Dies, Held
<1>13. CASE Tick \/ UNCHANGED barVars
  BY <1>2, <1>13 DEF Tick, barVars
<1>14. ASSUME NEW a \in Agents, JobStep(a) PROVE Held(r)
  BY <1>7, <1>8, <1>9, <1>10, <1>11, <1>14 DEF JobStep
<1>15. ASSUME NEW a \in Agents, FetchFails(a) PROVE Held(r)
  BY <1>11, <1>15
<1>16. CASE \E a \in Agents : StartCheck(a) \/ JobStep(a) \/ FetchFails(a) \/ Dies(a)
  BY <1>5, <1>12, <1>14, <1>15, <1>16
<1>17. CASE \E a \in Agents, d \in Datasets, n \in Lookbacks : StartIngest(a, d, n)
  BY <1>4, <1>17
<1> QED BY <1>13, <1>16, <1>17 DEF BarNext

\* In one loop nobody writes between the merging of a month and its filling.
LEMMA CurrentStep ==
  ASSUME Requests = {}, Threads = {}, BarInv, OneAtATime, CopiesAreCurrent, [BarNext]_barVars
  PROVE  CopiesAreCurrent'
<1>1. SUFFICES ASSUME NEW r \in Agents, job'[r].pc \in {"merged", "opened"}
               PROVE  Current(job'[r], files')
  BY DEF CopiesAreCurrent, Current
<1>2. job \in [Agents -> Jobs] /\ Current(job[r], files)
  BY DEF BarInv, BarTypeOK, CopiesAreCurrent
<1>3. CASE \A a \in Agents : ~FillMonth(a)
  <2>1. files' = files
    BY <1>3, OnlyFillWrites
  <2>2. CASE job'[r] = job[r]
    BY <1>2, <2>1, <2>2
  <2>3. CASE job'[r] = MergedJob(r)
    <3>1. PICK k : k = MergedJob(r)
      OBVIOUS
    <3>2. /\ k.todo = job[r].todo /\ k.set = job[r].set /\ k.got = job[r].got
          /\ k.copy = [b \in Bars |-> IF InMonth(r, b) THEN Merged(r, b) ELSE NoBar]
      BY <1>2, <3>1 DEF MergedJob, Jobs
    <3>3. Current(k, files)
      BY <3>2 DEF Current, InMonth, ThisMonth, Merged
    <3> QED BY <2>1, <2>3, <3>1, <3>3
  <2>4. CASE job[r].pc = "merged" /\ job'[r] = [job[r] EXCEPT !.pc = "opened"]
    <3>1. PICK k : k = [job[r] EXCEPT !.pc = "opened"]
      OBVIOUS
    <3>2. k.todo = job[r].todo /\ k.set = job[r].set /\ k.got = job[r].got /\ k.copy = job[r].copy
      BY <1>2, <3>1 DEF Jobs
    <3>3. Current(k, files)
      BY <1>2, <2>4, <3>2 DEF Current
    <3> QED BY <2>1, <2>4, <3>1, <3>3
  <2> QED BY <1>1, <1>3, <2>2, <2>3, <2>4, HoldersOfCopies DEF Held
<1>4. ASSUME NEW a \in Agents, FillMonth(a) PROVE FALSE
  <2>1. /\ job[a].pc = "opened" /\ job'[a] = RestOf(job[a])
        /\ \A x \in Agents \ {a} :
              \/ job[x].pc \notin Ingesting /\ job'[x] = job[x]
              \/ \E s \in BOOLEAN : job'[x] = [job[x] EXCEPT !.overtaken = TRUE, !.shared = s]
    BY <1>4, FillEffects DEF BarInv
  <2>2. CASE r = a
    <3>1. RestOf(job[a]).pc \in {"stored", "merging"}
      BY <1>2 DEF RestOf, IdleJob, Jobs
    <3> QED BY <1>1, <2>1, <2>2, <3>1
  <2>3. CASE r # a
    <3>1. Loop(a) = Agents
      BY DEF Loop, Agents
    <3>2. Awaits(r)
      BY <2>1, <2>3, <3>1 DEF OneAtATime, Turn, Awaits
    <3>3. job'[r].pc = job[r].pc
      <4>1. job[r] \in Jobs
        BY <1>2
      <4>2. \A s \in BOOLEAN : [job[r] EXCEPT !.overtaken = TRUE, !.shared = s].pc = job[r].pc
        BY <4>1 DEF Jobs
      <4> QED BY <2>1, <2>3, <4>2
    <3> QED BY <1>1, <3>2, <3>3 DEF Awaits
  <2> QED BY <2>2, <2>3
<1> QED BY <1>3, <1>4

\* What is filled in holds what was stored.
LEMMA NothingIsDropped ==
  ASSUME BarInv, CopiesAreCurrent, [BarNext]_barVars, lost = {}
  PROVE  lost' = {}
<1>1. CASE \A a \in Agents : ~FillMonth(a)
  BY <1>1, OnlyFillWrites
<1>2. ASSUME NEW a \in Agents, FillMonth(a) PROVE lost' = {}
  <2>1. SUFFICES ASSUME NEW b \in Bars, job[a].set = "bars",
                        files["bars"][b] # NoBar, files'["bars"][b] = NoBar
                 PROVE  FALSE
    BY <1>2 DEF FillMonth
  <2>2. /\ job[a].pc = "opened"
        /\ files'["bars"][b] = IF MonthOf(b) = Min(job[a].todo)
                               THEN job[a].copy[b] ELSE files["bars"][b]
    BY <1>2, <2>1, FillEffects DEF BarInv, Datasets
  <2>3. MonthOf(b) = Min(job[a].todo) =>
          job[a].copy[b] = IF job[a].got[b] # NoBar THEN job[a].got[b] ELSE files["bars"][b]
    BY <2>1, <2>2 DEF CopiesAreCurrent, Current
  <2> QED BY <2>1, <2>2, <2>3
<1> QED BY <1>1, <1>2

\* While only the worker ingests, however many of its coroutines are in flight and
\* whichever of them writes an older answer last: no bar is dropped, for all of
\* them are on one event loop and merge and write a month without an await
\* between (write_bars), and what is reported healthy is stored.
THEOREM OneLoopDropsNoBar ==
  ASSUME Requests = {}, Threads = {}
  PROVE  BarSpec => [](lost = {} /\ HealthyIsStored)
<1> DEFINE SoleInv == OneAtATime /\ CopiesAreCurrent /\ lost = {}
<1>1. BarInit => SoleInv
  BY DEF BarInit, OneAtATime, Awaits, CopiesAreCurrent, Current, IdleJob
<1>2. BarInv /\ SoleInv /\ [BarNext]_barVars => SoleInv'
  BY TurnsStep, CurrentStep, NothingIsDropped
<1>3. BarInv /\ SoleInv => lost = {} /\ HealthyIsStored
  BY DEF BarInv, Covered, Kept, HealthyIsStored
<1> HIDE DEF SoleInv
<1> QED BY <1>1, <1>2, <1>3, BarInitial, BarStep, PTL DEF BarSpec

-----------------------------------------------------------------------------
(* Mark prices.                                                                *)

Spent == [old : 0..MaxOld, runs : 0..MaxBarRuns, restarts : 0..MaxRestarts]

\* Every price anywhere in the system is one that was made.
MarksTypeOK ==
  /\ price \in 0..MaxPrice
  /\ {stored, refresh, delivered, marking, mark, valued} \subseteq 0..price
  /\ barRun \in [Runners -> 0..price]
  /\ used \in Spent

\* Every step keeps the prices among those that were made.
LEMMA MarksStep == MarksTypeOK /\ [MarksNext]_marksVars => MarksTypeOK'
<1> SUFFICES ASSUME MarksTypeOK, [MarksNext]_marksVars PROVE MarksTypeOK'
  OBVIOUS
<1>1. /\ price \in 0..MaxPrice /\ MaxPrice \in Nat /\ MaxOld \in Nat /\ MaxBarRuns \in Nat
      /\ MaxRestarts \in Nat
      /\ stored \in 0..price /\ refresh \in 0..price
      /\ delivered \in 0..price /\ marking \in 0..price /\ mark \in 0..price
      /\ valued \in 0..price
      /\ barRun \in [Runners -> 0..price]
      /\ used \in Spent
  BY MarksAssumption DEF MarksTypeOK
<1>2. /\ used.old < MaxOld => [used EXCEPT !.old = @ + 1] \in Spent
      /\ used.runs < MaxBarRuns => [used EXCEPT !.runs = @ + 1] \in Spent
      /\ used.restarts < MaxRestarts => [used EXCEPT !.restarts = @ + 1] \in Spent
  BY <1>1 DEF Spent
<1>3. /\ price' \in 0..MaxPrice /\ price <= price'
      /\ used' \in Spent
  BY <1>1, <1>2 DEF MarksNext, PriceMoves, StoreBar, StoreOldBar, RefreshRead, RefreshSave,
     StreamSave, MarkToMarket, ReadBarToRun, RunBarValues, ProcessDies, marksVars
<1>4. \A p \in 0..price : p \in 0..price'
  BY <1>1, <1>3
<1>5. /\ 0 \in 0..price' /\ price \in 0..price'
      /\ \A t \in 1..price : t \in 0..price'
      /\ \A r \in Runners : barRun[r] \in 0..price'
  BY <1>1, <1>3, <1>4
<1>6. /\ stored' \in 0..price' /\ refresh' \in 0..price'
      /\ delivered' \in 0..price' /\ marking' \in 0..price' /\ mark' \in 0..price'
      /\ valued' \in 0..price'
  BY <1>1, <1>3, <1>4, <1>5 DEF MarksNext, PriceMoves, StoreBar, StoreOldBar, RefreshRead,
     RefreshClose, RefreshSave, StreamSave, MarkToMarket, ReadBarToRun, RunBarValues, ProcessDies,
     marksVars, NoPrice
<1>7. barRun' \in [Runners -> 0..price']
  <2>1. \/ barRun' = barRun
        \/ \E r \in Runners, p \in {stored, NoPrice} : barRun' = [barRun EXCEPT ![r] = p]
    BY DEF MarksNext, PriceMoves, StoreBar, StoreOldBar, RefreshRead, RefreshSave,
       StreamSave, MarkToMarket, ReadBarToRun, RunBarValues, ProcessDies, marksVars
  <2>2. stored \in 0..price' /\ NoPrice \in 0..price'
    BY <1>1, <1>4, <1>5 DEF NoPrice
  <2> QED BY <1>1, <1>5, <2>1, <2>2
<1> QED BY <1>3, <1>6, <1>7 DEF MarksTypeOK

\* No mark, no stored close, no close on its way and no valuation of a position is
\* a price that was never made (ingest_mark_price, mark_to_market, run_bar).
THEOREM MarksTypeCorrect == MarksSpec => []MarksTypeOK
<1>1. MarksInit => MarksTypeOK
  BY MarksAssumption DEF MarksInit, MarksTypeOK, NoPrice, Spent, Runners
<1> QED BY <1>1, MarksStep, PTL DEF MarksSpec

-----------------------------------------------------------------------------
(* The mark and the valuation.                                                 *)

\* The mark that is being valued is the one that was saved last.
MarkIsMarking == marking # NoPrice => mark = marking

\* The open position is valued at the mark, or is about to be.
AtMark == marking # NoPrice \/ valued = mark

\* The position leaves the mark only by the close of a bar that is run, or because
\* the worker dies before it values; and a valuation that has begun ends at the mark.
OnlyBarsPart ==
  /\ AtMark =>
       \/ AtMark'
       \/ \E r \in Runners : RunBarValues(r) /\ valued' = barRun[r] /\ barRun[r] # mark
       \/ ProcessDies("tick") /\ marking # NoPrice
  /\ MarkToMarket => valued' = mark'
  /\ mark' # mark => AtMark' /\ marking' = mark'

\* No two marks are on their way to the position at once.
LEMMA MarkStep ==
  ASSUME MarksTypeOK, MarkIsMarking, [MarksNext]_marksVars
  PROVE  MarkIsMarking' /\ OnlyBarsPart
<1>1. ASSUME \/ PriceMoves \/ StoreBar \/ StoreOldBar \/ RefreshRead
             \/ (\E r \in Runners : ReadBarToRun(r)) \/ UNCHANGED marksVars
      PROVE  MarkIsMarking' /\ OnlyBarsPart
  <2>1. UNCHANGED <<marking, mark, valued>> /\ ~MarkToMarket
    BY <1>1 DEF PriceMoves, StoreBar, StoreOldBar, RefreshRead, ReadBarToRun, marksVars,
       MarkToMarket, NoPrice
  <2> QED BY <2>1 DEF MarkIsMarking, OnlyBarsPart, AtMark
<1>2. ASSUME RefreshSave \/ \E t \in 1..MaxPrice : StreamSave(t)
      PROVE  MarkIsMarking' /\ OnlyBarsPart
  <2>1. mark' = marking' /\ marking' # NoPrice /\ marking = NoPrice
    BY <1>2 DEF RefreshSave, StreamSave, NoPrice, MarksTypeOK
  <2> QED BY <2>1 DEF MarkIsMarking, OnlyBarsPart, AtMark, MarkToMarket
<1>3. ASSUME MarkToMarket PROVE MarkIsMarking' /\ OnlyBarsPart
  <2>1. mark' = mark /\ valued' = mark /\ marking' = NoPrice
    BY <1>3 DEF MarkToMarket, MarkIsMarking
  <2> QED BY <2>1 DEF MarkIsMarking, OnlyBarsPart, AtMark
<1>4. ASSUME NEW r \in Runners, RunBarValues(r) PROVE MarkIsMarking' /\ OnlyBarsPart
  <2>1. valued' = barRun[r] /\ UNCHANGED <<marking, mark>>
    BY <1>4 DEF RunBarValues
  <2>2. ~MarkToMarket
    BY <1>4, <2>1 DEF MarkToMarket
  <2> QED BY <1>4, <2>1, <2>2 DEF MarkIsMarking, OnlyBarsPart, AtMark
<1>5. ASSUME NEW r \in Runners, ProcessDies(r) PROVE MarkIsMarking' /\ OnlyBarsPart
  <2>1. /\ UNCHANGED <<mark, valued>>
        /\ IF r = "tick" THEN marking' = NoPrice ELSE marking' = marking
    BY <1>5 DEF ProcessDies
  <2>2. ~MarkToMarket
    BY <1>5 DEF ProcessDies, MarkToMarket, MarksTypeOK, Spent
  <2> QED BY <1>5, <2>1, <2>2 DEF MarkIsMarking, OnlyBarsPart, AtMark
<1> QED BY <1>1, <1>2, <1>3, <1>4, <1>5 DEF MarksNext

(* The stream and the refresh both save a mark and then value positions     *)
(* with it, and no other mark is saved in between.  So an open position     *)
(* that is valued at the mark leaves it only when a bar is run, by the      *)
(* worker's tick or a request (run_bar), or when the worker dies between    *)
(* the mark and the valuation; and the next mark brings it back.            *)
THEOREM OnlyBarsPartThem == MarksSpec => [][OnlyBarsPart]_marksVars
<1>1. MarksInit => MarkIsMarking
  BY DEF MarksInit, MarkIsMarking
<1>2. MarksTypeOK /\ MarkIsMarking /\ [MarksNext]_marksVars =>
        MarkIsMarking' /\ [OnlyBarsPart]_marksVars
  BY MarkStep
<1> QED BY <1>1, <1>2, MarksTypeCorrect, PTL DEF MarksSpec
=============================================================================
