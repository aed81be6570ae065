------------------------------ MODULE ApiProofs -----------------------------
(* The two parts of the API that guard its requests and have no state in      *)
(* common: the rate limiter for any number of callers, any limit and any      *)
(* window, and the secrets vault for any number of writers, names, values,    *)
(* passphrases and changes.                                                   *)
EXTENDS RateLimit, SecretsVault, TLAPS

-----------------------------------------------------------------------------
(* The rate limiter.                                                         *)

\* What has left the deque is older than the window of the latest time that
\* ever reached it.
DroppedExpired == \A k \in 1..dropped : admitted[k] + WindowSeconds < newest

RateInv == RateTypeOK /\ DroppedExpired /\ WindowBound

\* Checking the limit at time now: it is refused, or appended to the history.
Refused(now) == UNCHANGED <<admitted, late>>
Admits(d, now) ==
  /\ Len(admitted) - d < Limit
  /\ admitted' = Append(admitted, now)
  /\ late' = IF now < newest THEN late \cup {Len(admitted')} ELSE late

\* The initial state satisfies the invariant: nothing was admitted.
LEMMA RateInitial == RateInit => RateInv
<1>1. ASSUME RateInit PROVE RateInv
  <2>1. Len(admitted) = 0 /\ 1..0 = {}
    BY <1>1 DEF RateInit
  <2>2. RateTypeOK
    BY <1>1, <2>1 DEF RateInit, RateTypeOK, Outside
  <2> QED BY <1>1, <2>1, <2>2 DEF RateInit, RateInv, DroppedExpired, WindowBound
<1> QED BY <1>1

\* Dropping from the deque keeps the invariant's second part: an entry that
\* expires now is older than the window of the new latest time.
LEMMA DropKeepsExpired ==
  ASSUME RateAssumption, RateTypeOK, DroppedExpired,
         NEW now \in Nat, NEW d \in 0..Len(admitted), Drops(d, now),
         NEW top \in Nat, top >= now, top >= newest
  PROVE  \A k \in 1..d : admitted[k] + WindowSeconds < top
<1>1. SUFFICES ASSUME NEW k \in 1..d PROVE admitted[k] + WindowSeconds < top
  OBVIOUS
<1>2. admitted[k] \in Nat /\ newest \in Nat /\ dropped \in Nat /\ WindowSeconds \in Nat
  BY <1>1 DEF RateTypeOK, RateAssumption
<1>3. CASE k \in 1..dropped
  <2>1. admitted[k] + WindowSeconds < newest
    BY <1>3 DEF DroppedExpired
  <2> QED BY <1>2, <2>1
<1>4. CASE k \in dropped+1..d
  <2>1. admitted[k] < now - WindowSeconds
    BY <1>4 DEF Drops, Expired
  <2> QED BY <1>2, <2>1
<1> QED BY <1>1, <1>2, <1>3, <1>4

\* One caller passes the check.
LEMMA CheckKeeps ==
  ASSUME RateAssumption, RateInv, NEW c \in Callers, Check(c)
  PROVE  RateInv'
<1> DEFINE now == reading[c]
<1>1. /\ now \in Nat /\ newest \in Nat /\ newest' \in Nat
      /\ newest' >= now /\ newest' >= newest
  BY DEF RateInv, RateTypeOK, Check, Outside
<1>2. PICK d \in 0..Len(admitted) :
        /\ Drops(d, now) /\ dropped' = d
        /\ Refused(now) \/ Admits(d, now)
  BY DEF Check, Refused, Admits
<1>3. \A k \in 1..d : admitted[k] + WindowSeconds < newest'
  BY <1>1, <1>2, DropKeepsExpired DEF RateInv
<1>4. clock' = clock /\ reading' \in [Callers -> Nat \cup {Outside}]
  BY DEF Check, RateInv, RateTypeOK
<1>5. admitted \in Seq(Nat) /\ Len(admitted) \in Nat /\ late \subseteq 1..Len(admitted)
  BY DEF RateInv, RateTypeOK
<1> HIDE DEF now
<1>6. CASE Refused(now)
  <2>1. RateTypeOK'
    BY <1>1, <1>2, <1>4, <1>5, <1>6 DEF Refused, RateInv, RateTypeOK
  <2>2. DroppedExpired'
    BY <1>2, <1>3, <1>6 DEF Refused, DroppedExpired
  <2>3. WindowBound'
    BY <1>6 DEF Refused, RateInv, WindowBound
  <2> QED BY <2>1, <2>2, <2>3 DEF RateInv
<1>7. CASE Admits(d, now)
  <2>1. /\ admitted' \in Seq(Nat) /\ Len(admitted') = Len(admitted) + 1
        /\ \A k \in 1..Len(admitted) : admitted'[k] = admitted[k]
        /\ admitted'[Len(admitted) + 1] = now
    BY <1>1, <1>5, <1>7 DEF Admits
  <2>2. late' \subseteq 1..Len(admitted') /\ late \subseteq late'
    <3>1. late \subseteq 1..Len(admitted') /\ Len(admitted') \in 1..Len(admitted')
      BY <1>5, <2>1
    <3>2. late' = late \/ late' = late \cup {Len(admitted')}
      BY <1>7 DEF Admits
    <3> QED BY <3>1, <3>2
  <2>3. RateTypeOK'
    <3>1. d \in 0..Len(admitted')
      BY <1>2, <1>5, <2>1
    <3> QED BY <1>1, <1>2, <1>4, <2>1, <2>2, <3>1 DEF RateInv, RateTypeOK
  <2>4. DroppedExpired'
    <3>1. \A k \in 1..d : admitted'[k] = admitted[k]
      BY <1>2, <1>5, <2>1
    <3> QED BY <1>2, <1>3, <3>1 DEF DroppedExpired
  <2>5. WindowBound'
    <3>1. SUFFICES ASSUME NEW i \in 1..Len(admitted'), NEW j \in 1..Len(admitted'),
                          j - i >= Limit, j \notin late'
                   PROVE  admitted'[i] + WindowSeconds < admitted'[j]
      BY DEF WindowBound
    <3>2. Limit \in Nat \ {0} /\ WindowSeconds \in Nat
      BY DEF RateAssumption
    <3>3. CASE j \in 1..Len(admitted)
      <4>1. i \in 1..Len(admitted) /\ j \notin late
        BY <1>5, <2>2, <3>1, <3>2, <3>3
      <4>2. admitted[i] + WindowSeconds < admitted[j]
        BY <3>1, <3>3, <4>1 DEF RateInv, WindowBound
      <4> QED BY <2>1, <3>3, <4>1, <4>2
    <3>4. CASE j = Len(admitted) + 1
      <4>1. now >= newest
        BY <1>1, <1>7, <2>1, <3>1, <3>4 DEF Admits
      <4>2. newest' = now
        BY <1>1, <4>1 DEF Check, now
      <4>3. i \in 1..d
        BY <1>2, <1>5, <1>7, <2>1, <3>1, <3>2, <3>4 DEF Admits
      <4>4. admitted[i] + WindowSeconds < now
        BY <1>3, <4>2, <4>3
      <4>5. admitted'[i] = admitted[i] /\ admitted'[j] = now
        <5>1. i \in 1..Len(admitted)
          BY <1>2, <1>5, <4>3
        <5> QED BY <2>1, <3>4, <5>1
      <4> QED BY <4>4, <4>5
    <3> QED BY <1>5, <2>1, <3>1, <3>3, <3>4
  <2> QED BY <2>3, <2>4, <2>5 DEF RateInv
<1> QED BY <1>2, <1>6, <1>7

\* Every step keeps the invariant.
LEMMA RateStep == RateAssumption /\ RateInv /\ [RateNext]_rateVars => RateInv'
<1> SUFFICES ASSUME RateAssumption, RateInv, [RateNext]_rateVars PROVE RateInv'
  OBVIOUS
<1>1. CASE Tick
  BY <1>1 DEF Tick, RateInv, RateTypeOK, DroppedExpired, WindowBound
<1>2. ASSUME NEW c \in Callers, ReadClock(c) PROVE RateInv'
  BY <1>2 DEF ReadClock, RateInv, RateTypeOK, DroppedExpired, WindowBound
<1>3. ASSUME NEW c \in Callers, Check(c) PROVE RateInv'
  BY <1>3, CheckKeeps
<1>4. CASE UNCHANGED rateVars
  BY <1>4 DEF rateVars, RateInv, RateTypeOK, DroppedExpired, WindowBound
<1> QED BY <1>1, <1>2, <1>3, <1>4 DEF RateNext

\* The tables of the limiter keep their types.
THEOREM RateTypeCorrect == RateSpec => []RateTypeOK
<1>1. RateInv => RateTypeOK
  BY DEF RateInv
<1> QED BY <1>1, RateInitial, RateStep, RateAssumption, PTL DEF RateSpec

\* For any number of callers, any limit and any window length: an admission and
\* the one Limit later are more than a window apart, unless the later one was
\* overtaken between the clock and the lock (_check_limit).
THEOREM WindowIsBounded == RateSpec => []WindowBound
<1>1. RateInv => WindowBound
  BY DEF RateInv
<1> QED BY <1>1, RateInitial, RateStep, RateAssumption, PTL DEF RateSpec

-----------------------------------------------------------------------------
(* The secrets vault.                                                        *)

Holds(w) == writer[w].pc # "idle"

\* Every copy of the vault has its own change, and elsewhere, as the vault
\* itself, what was asked for last -- except for the names that were changed
\* while another request held a copy.
CopiesAgree ==
  \A n \in Names \ exposed :
    /\ vault.state # "broken" => vault.data[n] = intended[n]
    /\ \A w \in Writers :
         Holds(w) => writer[w].copy[n] = IF n = writer[w].name THEN writer[w].value
                                         ELSE intended[n]

\* A file that cannot be read is being written, or its writer died.
BrokenIsOpen == vault.state = "broken" => died \/ \E w \in Writers : writer[w].pc = "truncated"

VaultInv == VaultTypeOK /\ CopiesAgree /\ BrokenIsOpen

-----------------------------------------------------------------------------
\* What a file that cannot be read, an idle writer and an empty vault are.
LEMMA VaultValues ==
  /\ Nothing \in Contents
  /\ [state |-> "broken", data |-> Nothing, pass |-> NoPass] \in VaultFiles
  /\ [state |-> "absent", data |-> Nothing, pass |-> NoPass] \in VaultFiles
  /\ IdleWriter \in Changes /\ IdleWriter.pc = "idle"
<1>1. Nothing \in Contents
  BY DEF Nothing, Contents
<1>2. /\ [state |-> "broken", data |-> Nothing, pass |-> NoPass] \in VaultFiles
      /\ [state |-> "absent", data |-> Nothing, pass |-> NoPass] \in VaultFiles
  BY <1>1 DEF VaultFiles
<1>3. (CHOOSE n \in Names : TRUE) \in Names /\ (CHOOSE p \in Passphrases : TRUE) \in Passphrases
  BY VaultAssumption
<1>4. IdleWriter \in Changes /\ IdleWriter.pc = "idle"
  BY <1>1, <1>3 DEF IdleWriter, Changes, WriterStages
<1> QED BY <1>1, <1>2, <1>4

\* The parts of a request.
LEMMA ChangeParts ==
  ASSUME NEW c \in Changes
  PROVE  /\ c.pc \in WriterStages /\ c.name \in Names /\ c.value \in Secrets \cup {Missing}
         /\ c.pass \in Passphrases /\ c.copy \in Contents
         /\ \A s \in WriterStages : /\ [c EXCEPT !.pc = s] \in Changes
                                    /\ [c EXCEPT !.pc = s].pc = s
                                    /\ [c EXCEPT !.pc = s].name = c.name
                                    /\ [c EXCEPT !.pc = s].value = c.value
                                    /\ [c EXCEPT !.pc = s].copy = c.copy
  BY DEF Changes

\* A vault that nobody has written.
LEMMA VaultInitial == VaultInit => VaultInv
<1>1. SUFFICES ASSUME VaultInit PROVE VaultInv
  OBVIOUS
<1>2. VaultTypeOK
  <2>1. vault \in VaultFiles /\ intended \in Contents
    BY <1>1, VaultValues DEF VaultInit
  <2>2. writer \in [Writers -> Changes]
    BY <1>1, VaultValues DEF VaultInit
  <2>3. changes \in 0..MaxChanges /\ exposed \subseteq Names
    BY <1>1, VaultAssumption DEF VaultInit
  <2>4. died \in BOOLEAN
    BY <1>1 DEF VaultInit
  <2> QED BY <2>1, <2>2, <2>3, <2>4 DEF VaultTypeOK
<1>3. CopiesAgree
  BY <1>1, VaultValues DEF VaultInit, CopiesAgree, Holds
<1>4. BrokenIsOpen
  BY <1>1 DEF VaultInit, BrokenIsOpen
<1> QED BY <1>2, <1>3, <1>4 DEF VaultInv

\* One writer goes to another stage, or ends, and the vault stays.
LEMMA StageMove ==
  ASSUME VaultInv, NEW w \in Writers, NEW c \in Changes, writer' = [writer EXCEPT ![w] = c],
         UNCHANGED <<vault, changes, intended, exposed>>,
         c.pc = "idle" \/ /\ Holds(w) /\ c.name = writer[w].name
                          /\ c.value = writer[w].value /\ c.copy = writer[w].copy,
         died' \in BOOLEAN, died => died',
         writer[w].pc = "truncated" => died' \/ c.pc = "truncated"
  PROVE  VaultInv'
<1>1. writer'[w] = c /\ \A v \in Writers \ {w} : writer'[v] = writer[v]
  BY DEF VaultInv, VaultTypeOK
<1>2. VaultTypeOK'
  BY DEF VaultInv, VaultTypeOK
<1>3. CopiesAgree'
  BY <1>1 DEF VaultInv, CopiesAgree, Holds
<1>4. BrokenIsOpen'
  BY <1>1 DEF VaultInv, BrokenIsOpen
<1> QED BY <1>2, <1>3, <1>4 DEF VaultInv

\* A request reads the vault and changes its copy.
LEMMA ReadKeeps ==
  ASSUME VaultInv, NEW w \in Writers, NEW n \in Names, NEW value \in Secrets \cup {Missing},
         NEW pass \in Passphrases, ReadAll(w, n, value, pass)
  PROVE  VaultInv'
<1> DEFINE c == [pc |-> "copied", name |-> n, value |-> value, pass |-> pass,
                 copy |-> [vault.data EXCEPT ![n] = value]]
<1>1. changes' \in 0..MaxChanges
  BY VaultAssumption DEF ReadAll, VaultInv, VaultTypeOK
<1>2. UNCHANGED <<vault, intended, exposed, died>> /\ writer[w].pc = "idle"
  BY DEF ReadAll
<1>3. CASE UNCHANGED writer
  BY <1>1, <1>2, <1>3 DEF VaultInv, VaultTypeOK, CopiesAgree, BrokenIsOpen, Holds
<1>4. CASE Opens(pass) /\ writer' = [writer EXCEPT ![w] = c]
  <2>1. vault.data \in Contents /\ vault.state # "broken"
    BY <1>4 DEF Opens, VaultInv, VaultTypeOK, VaultFiles
  <2>2. [vault.data EXCEPT ![n] = value] \in Contents
    BY <2>1 DEF Contents
  <2>3. \A m \in Names : c.copy[m] = IF m = n THEN value ELSE vault.data[m]
    BY <2>1 DEF Contents
  <2>4. c \in Changes /\ c.pc = "copied" /\ c.name = n /\ c.value = value
    BY <2>2 DEF Changes, WriterStages
  <2> HIDE DEF c
  <2>5. writer'[w] = c /\ \A v \in Writers \ {w} : writer'[v] = writer[v]
    BY <1>4 DEF VaultInv, VaultTypeOK
  <2>6. VaultTypeOK'
    BY <1>1, <1>2, <1>4, <2>4 DEF VaultInv, VaultTypeOK
  <2>7. CopiesAgree'
    BY <1>2, <2>1, <2>3, <2>4, <2>5 DEF VaultInv, CopiesAgree, Holds
  <2>8. BrokenIsOpen'
    BY <1>2, <2>1 DEF BrokenIsOpen
  <2> QED BY <2>6, <2>7, <2>8 DEF VaultInv
<1> QED BY <1>3, <1>4 DEF ReadAll

\* A request empties the file.
LEMMA TruncateKeeps ==
  ASSUME VaultInv, NEW w \in Writers, Truncate(w)
  PROVE  VaultInv'
<1> DEFINE c == [writer[w] EXCEPT !.pc = "truncated"]
<1>1. writer[w] \in Changes
  BY DEF VaultInv, VaultTypeOK
<1>2. /\ c \in Changes /\ c.pc = "truncated" /\ c.name = writer[w].name
      /\ c.value = writer[w].value /\ c.copy = writer[w].copy
  BY <1>1, ChangeParts DEF WriterStages
<1>3. /\ writer' = [writer EXCEPT ![w] = c] /\ Holds(w)
      /\ vault' = [state |-> "broken", data |-> Nothing, pass |-> NoPass]
      /\ UNCHANGED <<changes, intended, exposed, died>>
  BY DEF Truncate, VaultInv, VaultTypeOK, Holds
<1> HIDE DEF c
<1>4. writer'[w] = c /\ \A v \in Writers \ {w} : writer'[v] = writer[v]
  BY <1>3 DEF VaultInv, VaultTypeOK
<1>5. vault' \in VaultFiles /\ vault'.state = "broken"
  BY <1>3, VaultValues
<1>6. VaultTypeOK'
  BY <1>2, <1>3, <1>5 DEF VaultInv, VaultTypeOK
<1>7. CopiesAgree'
  BY <1>2, <1>3, <1>4, <1>5 DEF VaultInv, CopiesAgree, Holds
<1>8. BrokenIsOpen'
  BY <1>2, <1>4 DEF BrokenIsOpen
<1> QED BY <1>6, <1>7, <1>8 DEF VaultInv

\* A request fills the file and ends.
LEMMA FillKeeps ==
  ASSUME VaultInv, NEW w \in Writers, Fill(w)
  PROVE  VaultInv'
<1> DEFINE c == writer[w]
<1>1. c \in Changes /\ c.pc = "truncated"
  BY DEF Fill, VaultInv, VaultTypeOK
<1>2. /\ c.name \in Names /\ c.value \in Secrets \cup {Missing}
      /\ c.pass \in Passphrases /\ c.copy \in Contents
  BY <1>1, ChangeParts
<1>3. PICK state \in {"sealed", "broken"} :
        /\ vault' = IF state = "broken" THEN [state |-> state, data |-> Nothing, pass |-> NoPass]
                    ELSE [state |-> state, data |-> c.copy, pass |-> c.pass]
        /\ died' = (died \/ state = "broken")
  BY DEF Fill, Sealed
<1>4. /\ intended' = [intended EXCEPT ![c.name] = c.value]
      /\ exposed' = IF \E v \in Writers \ {w} : writer[v].pc # "idle"
                    THEN exposed \cup {c.name} ELSE exposed
      /\ writer' = [writer EXCEPT ![w] = IdleWriter]
      /\ UNCHANGED changes
  BY DEF Fill
<1> HIDE DEF c
<1>5. writer'[w] = IdleWriter /\ \A v \in Writers \ {w} : writer'[v] = writer[v]
  BY <1>4 DEF VaultInv, VaultTypeOK
<1>6. /\ vault' \in VaultFiles /\ vault'.state = state
      /\ state = "sealed" => vault'.data = c.copy
  BY <1>2, <1>3, VaultValues DEF VaultFiles
<1>7. /\ intended'[c.name] = c.value
      /\ \A n \in Names : n # c.name => intended'[n] = intended[n]
      /\ intended' \in Contents
  BY <1>2, <1>4 DEF VaultInv, VaultTypeOK, Contents
<1>8. VaultTypeOK'
  <2>1. writer' \in [Writers -> Changes]
    BY <1>4, VaultValues DEF VaultInv, VaultTypeOK
  <2>2. exposed' \subseteq Names
    BY <1>2, <1>4 DEF VaultInv, VaultTypeOK
  <2>3. died' \in BOOLEAN /\ changes' \in 0..MaxChanges
    <3>1. died \in BOOLEAN /\ changes \in 0..MaxChanges
      BY DEF VaultInv, VaultTypeOK
    <3>2. (died \/ state = "broken") \in BOOLEAN
      OBVIOUS
    <3>3. died' \in BOOLEAN
      BY <1>3, <3>2, Zenon
    <3> QED BY <1>4, <3>1, <3>3
  <2> QED BY <1>6, <1>7, <2>1, <2>2, <2>3 DEF VaultTypeOK
<1>9. CopiesAgree'
  <2>1. SUFFICES ASSUME NEW n \in Names, n \notin exposed'
                 PROVE  /\ vault'.state # "broken" => vault'.data[n] = intended'[n]
                        /\ \A v \in Writers : writer'[v].pc # "idle" =>
                             writer'[v].copy[n] = IF n = writer'[v].name THEN writer'[v].value
                                                  ELSE intended'[n]
    BY DEF CopiesAgree, Holds
  <2>2. n \notin exposed
    BY <1>4, <2>1
  <2>3. \A v \in Writers : Holds(v) =>
          writer[v].copy[n] = IF n = writer[v].name THEN writer[v].value ELSE intended[n]
    BY <2>2 DEF VaultInv, CopiesAgree
  <2>4. c.copy[n] = IF n = c.name THEN c.value ELSE intended[n]
    BY <1>1, <2>3 DEF Holds, c
  <2>5. vault'.state # "broken" => vault'.data[n] = intended'[n]
    BY <1>3, <1>6, <1>7, <2>4
  <2>6. ASSUME NEW v \in Writers, writer'[v].pc # "idle"
        PROVE  writer'[v].copy[n] = IF n = writer'[v].name THEN writer'[v].value
                                    ELSE intended'[n]
    <3>1. v # w /\ writer'[v] = writer[v]
      BY <1>5, <2>6, VaultValues
    <3>2. n # c.name
      BY <1>4, <2>1, <2>6, <3>1
    <3> QED BY <1>7, <2>3, <2>6, <3>1, <3>2 DEF Holds
  <2> QED BY <2>5, <2>6
<1>10. BrokenIsOpen'
  BY <1>3, <1>6 DEF BrokenIsOpen
<1> QED BY <1>8, <1>9, <1>10 DEF VaultInv

\* Every step keeps the invariant.
LEMMA VaultStep == VaultInv /\ [VaultNext]_vaultVars => VaultInv'
<1> SUFFICES ASSUME VaultInv, [VaultNext]_vaultVars PROVE VaultInv'
  OBVIOUS
<1>1. ASSUME NEW w \in Writers, NEW n \in Names, NEW s \in Secrets \cup {Missing},
             NEW p \in Passphrases, ReadAll(w, n, s, p)
      PROVE  VaultInv'
  BY <1>1, ReadKeeps
<1>2. ASSUME NEW w \in Writers, Encrypt(w) PROVE VaultInv'
  <2>1. writer[w] \in Changes /\ died \in BOOLEAN
    BY DEF VaultInv, VaultTypeOK
  <2>2. PICK s \in {"idle", "encrypted"} : writer' = [writer EXCEPT ![w] = [writer[w] EXCEPT !.pc = s]]
    BY <1>2 DEF Encrypt, VaultInv, VaultTypeOK
  <2>3. Holds(w) /\ writer[w].pc # "truncated" /\ UNCHANGED <<vault, changes, intended, exposed, died>>
    BY <1>2 DEF Encrypt, Holds
  <2> DEFINE c == [writer[w] EXCEPT !.pc = s]
  <2>4. s \in WriterStages
    BY DEF WriterStages
  <2>5. /\ c \in Changes /\ c.name = writer[w].name
        /\ c.value = writer[w].value /\ c.copy = writer[w].copy
    BY <2>1, <2>4, ChangeParts
  <2>6. writer' = [writer EXCEPT ![w] = c]
    BY <2>2
  <2> HIDE DEF c
  <2>7. died' \in BOOLEAN /\ (died => died')
    BY <2>1, <2>3
  <2> QED BY <2>3, <2>5, <2>6, <2>7, StageMove
<1>3. ASSUME NEW w \in Writers, Truncate(w) PROVE VaultInv'
  BY <1>3, TruncateKeeps
<1>4. ASSUME NEW w \in Writers, Fill(w) PROVE VaultInv'
  BY <1>4, FillKeeps
<1>5. ASSUME NEW w \in Writers, WriterDies(w) PROVE VaultInv'
  <2>1. /\ writer' = [writer EXCEPT ![w] = IdleWriter]
        /\ died' = (died \/ writer[w].pc = "truncated")
        /\ UNCHANGED <<vault, changes, intended, exposed>>
    BY <1>5 DEF WriterDies
  <2>2. died \in BOOLEAN
    BY DEF VaultInv, VaultTypeOK
  <2> QED BY <2>1, <2>2, VaultValues, StageMove
<1>6. CASE UNCHANGED vaultVars
  BY <1>6 DEF vaultVars, VaultInv, VaultTypeOK, CopiesAgree, BrokenIsOpen, Holds
<1> QED BY <1>1, <1>2, <1>3, <1>4, <1>5, <1>6 DEF VaultNext

\* The file and the requests keep their types.
THEOREM VaultTypeCorrect == VaultSpec => []VaultTypeOK
<1>1. VaultInv => VaultTypeOK
  BY DEF VaultInv
<1> QED BY <1>1, VaultInitial, VaultStep, PTL DEF VaultSpec

\* For any number of writers: as long as no writer died with the file empty and
\* no two wrote it at once, the vault can be read, and a name holds what the last
\* completed request asked for unless another request held a copy of the vault
\* when it was changed (set_secret, delete_secret).
THEOREM KeysAreKept == VaultSpec => []KeysKept
<1>1. VaultInv => KeysKept
  BY DEF VaultInv, BrokenIsOpen, CopiesAgree, KeysKept, Writing
<1> QED BY <1>1, VaultInitial, VaultStep, PTL DEF VaultSpec
=============================================================================
