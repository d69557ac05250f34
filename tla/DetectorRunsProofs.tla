------------------------- MODULE DetectorRunsProofs -------------------------
(***************************************************************************)
(* Theorems about DetectorRuns, for every value of its constants: any      *)
(* vendors, detectors, selections, batches, slots, lifetime and restarts.  *)
(*                                                                         *)
(* Two things make an answer: what the cache held when the call began and  *)
(* what the call fetched.  The invariant keeps them apart (Given), says    *)
(* that nothing asked for is forgotten (Covered), and ties every entry of  *)
(* the cache to a call that was over when the entry was stamped (Made):    *)
(* such a call never changes again, so its end can still be read off.      *)
(***************************************************************************)
EXTENDS DetectorRuns, FiniteSetTheorems, TLAPS

Wanted(b) == {Ordered(b)[k] : k \in DOMAIN Ordered(b)}

Has(call, t) == \E r \in call.got : r.detector = t

\* by was over at time at.
Made(by, at) ==
    /\ by[1] \in Batches /\ by[2] \in DOMAIN batches[by[1]].calls
    /\ batches[by[1]].calls[by[2]].phase = "done"
    /\ batches[by[1]].calls[by[2]].ended >= at

\* The answers of b for domain d are one per type, in order.
Complete(b, d) ==
    /\ Len(batches[b].answers[d]) = Len(Ordered(b))
    /\ \A k \in DOMAIN batches[b].answers[d] :
          /\ batches[b].answers[d][k].detector = Ordered(b)[k]
          /\ batches[b].answers[d][k].domain = d

\* What a call has at each point of run_detectors_for_vendor.
Placed(b, i) ==
    LET call == batches[b].calls[i] IN
    /\ call.phase = "waiting" => call.got = {} /\ call.scan = "none" /\ call.todo = {}
    /\ call.phase = "done" =>
          call.scan = "none" /\ call.todo = {} /\ Complete(b, batches[b].vendors[i])
    /\ call.todo \subseteq call.missing /\ call.missing \subseteq Wanted(b)
    /\ call.started <= clock
    /\ call.scan = "deriving" => call.scanAt >= call.started

\* A result is fetched by the call, for a type the cache lacked, or cached in time.
Given(b, i) ==
    LET call == batches[b].calls[i] IN
    \A r \in call.got :
        /\ r.domain = batches[b].vendors[i]
        /\ r.by = <<b, i>> <=> r.detector \in call.missing
        /\ r.by = <<b, i>> => r.made >= call.started
        /\ r.by # <<b, i>> => Made(r.by, call.started - TTL)

\* Every type is there or a task is at work on it.
Covered(b, i) ==
    LET call == batches[b].calls[i] IN
    call.phase = "fetching" => \A t \in Wanted(b) :
        \/ Has(call, t)
        \/ t \in call.missing /\ t \in call.todo
        \/ t \in call.missing /\ t \in Derived /\ call.scan # "none"

CallInv(b, i) == Placed(b, i) /\ Given(b, i) /\ Covered(b, i)

BatchInv(b) ==
    /\ DOMAIN batches[b].calls = DOMAIN batches[b].vendors
    /\ batches[b].phase = "none" => batches[b].calls = <<>>
    /\ batches[b].phase = "done" => \A i \in DOMAIN batches[b].calls : batches[b].calls[i].phase = "done"
    /\ \A i \in DOMAIN batches[b].calls : CallInv(b, i)

Earned(d, t, e) == e.result.detector = t /\ e.result.domain = d /\ Made(e.result.by, e.at)

CacheInv == \A d \in Domains, t \in Types : cache[d][t] # NoEntry => Earned(d, t, cache[d][t])

RunsInv == TypeOK /\ CacheInv /\ \A b \in Batches : BatchInv(b)

-----------------------------------------------------------------------------
(* The answer.                                                             *)

\* The order of an answer is a list of types (ordered).
LEMMA OrderedType ==
    ASSUME TypeOK, NEW b \in Batches
    PROVE  Ordered(b) \in Seq(Types)
BY DetectorRunsAssumption DEF TypeOK, BatchType, Ordered

\* When no position is left out, the n-th of them is n.
LEMMA NthIsItself ==
    ASSUME NEW L \in Nat
    PROVE  /\ Cardinality(1..L) = L
           /\ \A n \in 1..L : Nth(1..L, n) = n
<1>1. \A k \in 1..L : Cardinality({j \in 1..L : j <= k}) = k
  <2> TAKE k \in 1..L
  <2>1. {j \in 1..L : j <= k} = 1..k
    OBVIOUS
  <2>2. k \in Int /\ 1 <= k
    OBVIOUS
  <2>3. Cardinality(1..k) = k
    BY <2>2, FS_Interval
  <2> QED
    BY <2>1, <2>3
<1>2. Cardinality(1..L) = L
  BY FS_Interval
<1> QED
  BY <1>1, <1>2 DEF Nth

\* When every type asked for has a result, the answer has each of them in its
\* place (the list comprehension at the end of run_detectors_for_vendor).
LEMMA AnswerComplete ==
    ASSUME TypeOK, NEW b \in Batches, NEW call \in CallType, NEW d \in Domains,
           \A t \in Wanted(b) : Has(call, t),
           \A r \in call.got : r.domain = d
    PROVE  /\ Answer(b, call) \in Seq(ResultType)
           /\ Len(Answer(b, call)) = Len(Ordered(b))
           /\ DOMAIN Answer(b, call) = 1..Len(Ordered(b))
           /\ \A k \in 1..Len(Ordered(b)) :
                 Answer(b, call)[k].detector = Ordered(b)[k] /\ Answer(b, call)[k].domain = d
<1> DEFINE ts == Ordered(b)
           there == {k \in DOMAIN ts : \E r \in call.got : r.detector = ts[k]}
           R(k) == Of(call.got, ts[k])
<1>1. ts \in Seq(Types) /\ DOMAIN ts = 1..Len(ts) /\ Len(ts) \in Nat
  BY OrderedType
<1>2. there = 1..Len(ts)
  BY <1>1 DEF Wanted, Has
<1>3. \A k \in 1..Len(ts) : R(k) \in call.got /\ R(k).detector = ts[k]
  BY <1>1 DEF Wanted, Has, Of
<1>4. Answer(b, call) = [k \in 1..Len(ts) |-> R(k)]
  BY <1>1, <1>2, NthIsItself DEF Answer
<1>5. \A k \in 1..Len(ts) : R(k) \in ResultType
  BY <1>3 DEF CallType
<1> HIDE DEF ts, there, R
<1>6. /\ Answer(b, call) \in Seq(ResultType)
      /\ Len(Answer(b, call)) = Len(ts)
      /\ DOMAIN Answer(b, call) = 1..Len(ts)
  BY <1>1, <1>4, <1>5
<1>7. \A k \in 1..Len(ts) : Answer(b, call)[k].detector = ts[k] /\ Answer(b, call)[k].domain = d
  BY <1>3, <1>4
<1> QED
  BY <1>6, <1>7 DEF ts

-----------------------------------------------------------------------------
(* What the steps of a call change.                                        *)

\* Call i of b becomes c, and the answers of b become as.
Moved(b, i, c, as) ==
    /\ batches' \in [Batches -> BatchType]
    /\ \A e \in Batches : e # b => batches'[e] = batches[e]
    /\ batches'[b].phase = batches[b].phase
    /\ batches'[b].vendors = batches[b].vendors
    /\ batches'[b].types = batches[b].types
    /\ batches'[b].answers = as
    /\ DOMAIN batches'[b].calls = DOMAIN batches[b].calls
    /\ batches'[b].calls[i] = c
    /\ \A j \in DOMAIN batches[b].calls : j # i => batches'[b].calls[j] = batches[b].calls[j]

\* The entry of one call changes and nothing else (CallTo).
LEMMA MovesTo ==
    ASSUME TypeOK, NEW b \in Batches, NEW i \in DOMAIN batches[b].calls, NEW c \in CallType,
           batches' = CallTo(b, i, c)
    PROVE  Moved(b, i, c, batches[b].answers)
<1>0. batches \in [Batches -> BatchType] /\ batches[b] \in BatchType /\ batches[b].calls \in Seq(CallType)
  BY DEF TypeOK, BatchType
<1>1. PICK cs : cs = [batches[b].calls EXCEPT ![i] = c]
  OBVIOUS
<1>2. /\ cs \in Seq(CallType) /\ DOMAIN cs = DOMAIN batches[b].calls /\ cs[i] = c
      /\ \A j \in DOMAIN cs : j # i => cs[j] = batches[b].calls[j]
  BY <1>0, <1>1
<1>3. PICK r : r = [batches[b] EXCEPT !.calls = cs]
  OBVIOUS
<1>4. /\ r \in BatchType /\ r.phase = batches[b].phase /\ r.vendors = batches[b].vendors
      /\ r.types = batches[b].types /\ r.answers = batches[b].answers /\ r.calls = cs
  BY <1>0, <1>2, <1>3 DEF BatchType
<1>5. batches' = [batches EXCEPT ![b] = r]
  BY <1>1, <1>3 DEF CallTo
<1> QED
  BY <1>0, <1>2, <1>4, <1>5 DEF Moved

\* A call returns: its answer is filed under its domain (Returned).
LEMMA MovesBack ==
    ASSUME TypeOK, NEW b \in Batches, NEW i \in DOMAIN batches[b].calls, NEW call \in CallType,
           batches[b].vendors[i] \in Domains,
           Answer(b, call) \in Seq(ResultType),
           batches' = Returned(b, i, call)
    PROVE  /\ [call EXCEPT !.phase = "done", !.ended = clock] \in CallType
           /\ Moved(b, i, [call EXCEPT !.phase = "done", !.ended = clock],
                    [batches[b].answers EXCEPT ![batches[b].vendors[i]] = Answer(b, call)])
<1>0. /\ batches \in [Batches -> BatchType] /\ batches[b] \in BatchType
      /\ batches[b].calls \in Seq(CallType) /\ batches[b].answers \in [Domains -> Seq(ResultType)]
      /\ clock \in Nat
  BY DEF TypeOK, BatchType
<1>c. PICK c : c = [call EXCEPT !.phase = "done", !.ended = clock]
  OBVIOUS
<1>d. PICK as : as = [batches[b].answers EXCEPT ![batches[b].vendors[i]] = Answer(b, call)]
  OBVIOUS
<1>1. c \in CallType /\ as \in [Domains -> Seq(ResultType)]
  BY <1>0, <1>c, <1>d DEF CallType
<1>2. PICK cs : cs = [batches[b].calls EXCEPT ![i] = c]
  OBVIOUS
<1>3. /\ cs \in Seq(CallType) /\ DOMAIN cs = DOMAIN batches[b].calls /\ cs[i] = c
      /\ \A j \in DOMAIN cs : j # i => cs[j] = batches[b].calls[j]
  BY <1>0, <1>1, <1>2
<1>4. PICK r : r = [batches[b] EXCEPT !.calls = cs, !.answers = as]
  OBVIOUS
<1>5. /\ r \in BatchType /\ r.phase = batches[b].phase /\ r.vendors = batches[b].vendors
      /\ r.types = batches[b].types /\ r.answers = as /\ r.calls = cs
  BY <1>0, <1>1, <1>3, <1>4 DEF BatchType
<1>6. batches' = [batches EXCEPT ![b] = r]
  BY <1>c, <1>d, <1>2, <1>4 DEF Returned
<1>7. Moved(b, i, c, as)
  BY <1>0, <1>3, <1>5, <1>6 DEF Moved
<1> QED
  BY <1>1, <1>7, <1>c, <1>d
\* Types of a call, spelled out once.
LEMMA CallTypes ==
    ASSUME TypeOK, NEW b \in Batches, NEW i \in DOMAIN batches[b].calls
    PROVE  /\ batches[b] \in BatchType
           /\ batches[b].calls[i] \in CallType
           /\ batches[b].calls[i].started \in Nat /\ batches[b].calls[i].ended \in Nat
           /\ i \in Nat
           /\ \A r \in batches[b].calls[i].got :
                 r \in ResultType /\ r.by \in Batches \X Nat /\ r.made \in Nat
<1>1. batches[b] \in BatchType /\ batches[b].calls \in Seq(CallType)
  BY DEF TypeOK, BatchType
<1>2. batches[b].calls[i] \in CallType /\ i \in Nat
  BY <1>1
<1>3. /\ batches[b].calls[i].got \subseteq ResultType
      /\ batches[b].calls[i].started \in Nat /\ batches[b].calls[i].ended \in Nat
  BY <1>2 DEF CallType
<1> QED
  BY <1>1, <1>2, <1>3 DEF ResultType

\* A call that is over stays as it is when another one moves.
LEMMA MovedMade ==
    ASSUME TypeOK, NEW b \in Batches, NEW i \in DOMAIN batches[b].calls, NEW c \in CallType, NEW as,
           batches[b].calls[i].phase # "done",
           Moved(b, i, c, as)
    PROVE  \A by \in Batches \X Nat, at \in Int : Made(by, at) => Made(by, at)'
BY DEF Moved, Made

\* What is left to show when one call moves is its own part of the invariant.
LEMMA MovedInv ==
    ASSUME TypeOK, \A e \in Batches : BatchInv(e),
           NEW b \in Batches, batches[b].phase = "running",
           NEW i \in DOMAIN batches[b].calls, batches[b].calls[i].phase # "done",
           NEW c \in CallType, NEW as \in [Domains -> Seq(ResultType)],
           Moved(b, i, c, as), clock' = clock,
           \A d \in Domains : as[d] = batches[b].answers[d] \/ Complete(b, d)',
           CallInv(b, i)'
    PROVE  \A e \in Batches : BatchInv(e)'
<1>1. \A by \in Batches \X Nat, at \in Int : Made(by, at) => Made(by, at)'
  BY MovedMade
<1>2. \A e \in Batches : e # b => batches'[e] = batches[e]
  BY DEF Moved
<1>3. \A e \in Batches : Ordered(e)' = Ordered(e) /\ Wanted(e)' = Wanted(e)
  BY <1>2 DEF Moved, Ordered, Wanted
<1>4. \A e \in Batches : \A j \in DOMAIN batches[e].calls :
         <<e, j>> # <<b, i>> => batches'[e].calls[j] = batches[e].calls[j]
  BY <1>2 DEF Moved
<1>5. \A e \in Batches : /\ DOMAIN batches'[e].calls = DOMAIN batches[e].calls
                         /\ batches'[e].vendors = batches[e].vendors
                         /\ batches'[e].phase = batches[e].phase
  BY <1>2 DEF Moved
<1>6. ASSUME NEW e \in Batches, NEW d \in Domains, Complete(e, d)
      PROVE  Complete(e, d)'
  <2>1. CASE batches'[e].answers[d] = batches[e].answers[d]
    BY <1>3, <1>6, <2>1 DEF Complete
  <2>2. CASE batches'[e].answers[d] # batches[e].answers[d]
    BY <1>2, <2>2 DEF Moved
  <2> QED
    BY <2>1, <2>2
<1>7. ASSUME NEW e \in Batches, NEW j \in DOMAIN batches[e].calls, <<e, j>> # <<b, i>>
      PROVE  CallInv(e, j)'
  <2>1. batches'[e].calls[j] = batches[e].calls[j] /\ CallInv(e, j)
    BY <1>4, <1>7 DEF BatchInv
  <2>2. batches[e].vendors[j] \in Domains
    BY DEF BatchInv, TypeOK, BatchType
  <2>3. Placed(e, j)'
    BY <1>3, <1>5, <1>6, <2>1, <2>2 DEF CallInv, Placed
  <2>4. Given(e, j)'
    <3> SUFFICES ASSUME NEW r \in batches[e].calls[j].got, r.by # <<e, j>>
                 PROVE  Made(r.by, batches[e].calls[j].started - TTL)'
      BY <1>5, <2>1 DEF CallInv, Given
    <3>1. Made(r.by, batches[e].calls[j].started - TTL)
      BY <2>1 DEF CallInv, Given
    <3>2. PICK by \in Batches \X Nat : by = r.by
      BY CallTypes
    <3>3. PICK at \in Int : at = batches[e].calls[j].started - TTL
      BY CallTypes, DetectorRunsAssumption
    <3>4. Made(by, at)'
      BY <1>1, <3>1, <3>2, <3>3
    <3> QED
      BY <3>2, <3>3, <3>4, <2>1
  <2>5. Covered(e, j)'
    BY <1>3, <2>1 DEF CallInv, Covered
  <2> QED
    BY <2>3, <2>4, <2>5 DEF CallInv
<1>8. ASSUME NEW e \in Batches
      PROVE  BatchInv(e)'
  <2>1. \A j \in DOMAIN batches'[e].calls : CallInv(e, j)'
    BY <1>5, <1>7
  <2>2. CASE e = b
    BY <1>5, <2>1, <2>2 DEF BatchInv
  <2>3. CASE e # b
    BY <1>2, <2>1, <2>3 DEF BatchInv
  <2> QED
    BY <2>2, <2>3
<1> QED
  BY <1>8

\* An entry keeps its worth while the call that made it stays over.
LEMMA EarnedStays ==
    ASSUME TypeOK, CacheInv, NEW d \in Domains, NEW t \in Types, cache[d][t] # NoEntry,
           \A by \in Batches \X Nat, at \in Int : Made(by, at) => Made(by, at)'
    PROVE  \A e : e = cache[d][t] => Earned(d, t, e)'
<1>1. PICK e : e = cache[d][t]
  OBVIOUS
<1>2. Earned(d, t, e)
  BY <1>1 DEF CacheInv
<1>3. e \in Entry
  BY <1>1 DEF TypeOK
<1>4. e.result.by \in Batches \X Nat /\ e.at \in Int
  BY <1>3 DEF Entry, ResultType
<1>5. Earned(d, t, e)'
  BY <1>2, <1>4 DEF Earned
<1> QED
  BY <1>1, <1>5

\* Another task of a call has come to its end: what it fetched is there, and
\* what is left is covered as before (_run_scan_derived_detectors, _run_one_independent).
LEMMA FetchInv ==
    ASSUME RunsInv, NEW b \in Batches, batches[b].phase = "running",
           NEW i \in DOMAIN batches[b].calls, batches[b].calls[i].phase = "fetching",
           NEW c \in CallType, NEW ts \in SUBSET Types, NEW made \in Nat,
           c.phase = "fetching", c.started = batches[b].calls[i].started,
           c.missing = batches[b].calls[i].missing,
           c.got = batches[b].calls[i].got \cup {Result(b, i, t, made) : t \in ts},
           ts \subseteq batches[b].calls[i].missing, made >= batches[b].calls[i].started,
           c.todo \subseteq batches[b].calls[i].todo,
           batches[b].calls[i].todo \ c.todo \subseteq ts,
           c.scan = "none" => batches[b].calls[i].scan = "none"
                                \/ batches[b].calls[i].missing \cap Derived \subseteq ts,
           c.scan = "deriving" => c.scanAt >= c.started,
           batches' = CallTo(b, i, c), UNCHANGED <<cache, clock, restarts>>
    PROVE  RunsInv'
<1> DEFINE call == batches[b].calls[i]
<1>0. /\ TypeOK /\ CacheInv /\ BatchInv(b) /\ CallInv(b, i) /\ batches[b] \in BatchType
      /\ \A e \in Batches : BatchInv(e)
  BY DEF RunsInv, BatchInv, TypeOK
<1>1. Moved(b, i, c, batches[b].answers)
  BY <1>0, MovesTo
<1>2. \A by \in Batches \X Nat, at \in Int : Made(by, at) => Made(by, at)'
  BY <1>0, <1>1, MovedMade
<1>3. batches'[b].calls[i] = c /\ batches'[b].vendors = batches[b].vendors
  BY <1>1 DEF Moved
<1>w. Wanted(b)' = Wanted(b)
  BY <1>1 DEF Moved, Wanted, Ordered
<1>4. Placed(b, i)'
  BY <1>0, <1>3, <1>w DEF CallInv, Placed
<1>5. Given(b, i)'
  <2>1. ASSUME NEW r \in call.got
        PROVE  /\ r.domain = batches[b].vendors[i]
               /\ r.by = <<b, i>> <=> r.detector \in c.missing
               /\ r.by = <<b, i>> => r.made >= c.started
               /\ r.by # <<b, i>> => Made(r.by, c.started - TTL)'
    <3>1. /\ r.domain = batches[b].vendors[i]
          /\ r.by = <<b, i>> <=> r.detector \in c.missing
          /\ r.by = <<b, i>> => r.made >= c.started
          /\ r.by # <<b, i>> => Made(r.by, c.started - TTL)
      BY <1>0 DEF CallInv, Given
    <3>2. PICK by \in Batches \X Nat : by = r.by
      BY <1>0, CallTypes
    <3>3. PICK at \in Int : at = c.started - TTL
      BY <1>0, CallTypes, DetectorRunsAssumption
    <3> QED
      BY <1>2, <3>1, <3>2, <3>3
  <2>2. ASSUME NEW t \in ts, NEW r, r = Result(b, i, t, made)
        PROVE  /\ r.domain = batches[b].vendors[i] /\ r.by = <<b, i>>
               /\ r.detector = t /\ r.made = made
    BY <2>2 DEF Result
  <2> QED
    BY <1>3, <2>1, <2>2 DEF Given
<1>6. Covered(b, i)'
  <2>2. ASSUME NEW t \in ts
        PROVE  Has(c, t)
    <3>1. Result(b, i, t, made) \in c.got
      OBVIOUS
    <3>2. Result(b, i, t, made).detector = t
      BY DEF Result
    <3> QED
      BY <3>1, <3>2 DEF Has
  <2>3. \A t : Has(call, t) => Has(c, t)
    BY DEF Has
  <2>4. ASSUME NEW t \in Wanted(b)
        PROVE  \/ Has(c, t)
               \/ t \in c.missing /\ t \in c.todo
               \/ t \in c.missing /\ t \in Derived /\ c.scan # "none"
    BY <1>0, <2>2, <2>3 DEF CallInv, Covered
  <2> QED
    BY <1>3, <1>w, <2>4 DEF Covered
<1>7. \A e \in Batches : BatchInv(e)'
  BY <1>0, <1>1, <1>4, <1>5, <1>6, MovedInv DEF CallInv, BatchType
<1>8. TypeOK'
  BY <1>0, <1>1 DEF Moved, TypeOK
<1>9. CacheInv'
  BY <1>0, <1>2, EarnedStays DEF CacheInv
<1> QED
  BY <1>7, <1>8, <1>9 DEF RunsInv

\* A result of a call has its type.
LEMMA ResultTyped ==
    ASSUME RunsInv, NEW b \in Batches, NEW i \in DOMAIN batches[b].calls, NEW t \in Types, NEW made \in Nat
    PROVE  Result(b, i, t, made) \in ResultType
<1>1. batches[b].vendors[i] \in Domains /\ i \in Nat
  BY DEF RunsInv, BatchInv, TypeOK, BatchType
<1> QED
  BY <1>1 DEF Result, ResultType

\* The scan, well or not, and what is derived from it.
LEMMA ScanStep ==
    ASSUME RunsInv, NEW b \in Batches, NEW i \in DOMAIN batches[b].calls,
           ScanAnswers(b, i) \/ Derive(b, i)
    PROVE  RunsInv'
<1> DEFINE call == batches[b].calls[i]
           ts == call.missing \cap Derived
<1>0. /\ call \in CallType /\ clock \in Nat /\ CallInv(b, i) /\ TypeOK
      /\ batches[b].phase = "running" /\ call.scan # "none" /\ UNCHANGED <<cache, clock, restarts>>
  BY CallTypes DEF RunsInv, BatchInv, TypeOK, ScanAnswers, Derive
<1>1. call.phase = "fetching" /\ call.started <= clock
  BY <1>0 DEF CallInv, Placed, CallType
<1>2. ts \in SUBSET Types /\ ts \subseteq call.missing
  BY <1>0 DEF CallType
<1>3. ASSUME batches' = CallTo(b, i, [call EXCEPT !.scan = "deriving", !.scanAt = clock])
      PROVE  RunsInv'
  <2>1. PICK c : c = [call EXCEPT !.scan = "deriving", !.scanAt = clock]
    OBVIOUS
  <2>2. /\ c \in CallType /\ c.phase = call.phase /\ c.started = call.started
        /\ c.missing = call.missing /\ c.got = call.got /\ c.todo = call.todo
        /\ c.scan = "deriving" /\ c.scanAt = clock
    BY <1>0, <2>1 DEF CallType
  <2>3. PICK none \in SUBSET Types : none = {}
    OBVIOUS
  <2>4. c.got = call.got \cup {Result(b, i, t, clock) : t \in none}
    BY <2>2, <2>3
  <2>5. call.todo \ c.todo \subseteq none /\ c.todo \subseteq call.todo /\ none \subseteq call.missing
    BY <2>2, <2>3
  <2>6. batches' = CallTo(b, i, c)
    <3> HIDE DEF call
    <3> QED
      BY <1>3, <2>1, ZenonT(60)
  <2> QED
    BY <1>0, <1>1, <2>2, <2>4, <2>5, <2>6, FetchInv
<1>4. ASSUME NEW made \in Nat, made >= call.started,
             batches' = CallTo(b, i, [call EXCEPT !.scan = "none", !.got = @ \cup DerivedResults(b, i, made)])
      PROVE  RunsInv'
  <2>1. PICK c : c = [call EXCEPT !.scan = "none", !.got = @ \cup DerivedResults(b, i, made)]
    OBVIOUS
  <2>2. DerivedResults(b, i, made) = {Result(b, i, t, made) : t \in ts}
    BY DEF DerivedResults
  <2>3. DerivedResults(b, i, made) \subseteq ResultType
    BY <1>2, <2>2, ResultTyped
  <2>4. /\ c \in CallType /\ c.phase = call.phase /\ c.started = call.started
        /\ c.missing = call.missing /\ c.got = call.got \cup DerivedResults(b, i, made)
        /\ c.todo = call.todo /\ c.scan = "none"
    BY <1>0, <2>1, <2>3 DEF CallType
  <2> QED
    BY <1>0, <1>1, <1>2, <1>4, <2>1, <2>2, <2>4, FetchInv
<1>5. CASE ScanAnswers(b, i)
  BY <1>0, <1>1, <1>3, <1>4, <1>5 DEF ScanAnswers
<1>6. CASE Derive(b, i)
  <2>1. call.scanAt \in Nat /\ call.scanAt >= call.started
    BY <1>0, <1>6 DEF Derive, CallInv, Placed, CallType
  <2> QED
    BY <1>4, <1>6, <2>1 DEF Derive
<1> QED
  BY <1>5, <1>6

\* An independent detector comes to its end.
LEMMA IndependentStep ==
    ASSUME RunsInv, NEW b \in Batches, NEW i \in DOMAIN batches[b].calls, NEW t \in Independent,
           IndependentAnswers(b, i, t)
    PROVE  RunsInv'
<1> DEFINE call == batches[b].calls[i]
<1>0. /\ call \in CallType /\ clock \in Nat /\ CallInv(b, i) /\ TypeOK /\ t \in Types
      /\ batches[b].phase = "running" /\ t \in call.todo /\ UNCHANGED <<cache, clock, restarts>>
  BY CallTypes DEF RunsInv, BatchInv, TypeOK, IndependentAnswers, Types
<1>1. call.phase = "fetching" /\ call.started <= clock /\ t \in call.missing
  BY <1>0 DEF CallInv, Placed, CallType
<1>2. Result(b, i, t, clock) \in ResultType
  BY <1>0, ResultTyped
<1>3. PICK c : c = [call EXCEPT !.todo = @ \ {t}, !.got = @ \cup {Result(b, i, t, clock)}]
  OBVIOUS
<1>4. /\ c \in CallType /\ c.phase = call.phase /\ c.started = call.started
      /\ c.missing = call.missing /\ c.got = call.got \cup {Result(b, i, t, clock)}
      /\ c.todo = call.todo \ {t} /\ c.scan = call.scan /\ c.scanAt = call.scanAt
  BY <1>0, <1>2, <1>3 DEF CallType
<1>5. c.got = call.got \cup {Result(b, i, u, clock) : u \in {t}}
  BY <1>4
<1>6. call.scan = "deriving" => call.scanAt >= call.started
  BY <1>0 DEF CallInv, Placed
<1>7. batches' = CallTo(b, i, c)
  BY <1>3 DEF IndependentAnswers
<1> QED
  BY <1>0, <1>1, <1>4, <1>5, <1>6, <1>7, FetchInv

\* What a call may be given: fetched by itself for what it misses, or made in time by another.
Due(b, i, call) ==
    \A r \in call.got :
        /\ r.domain = batches[b].vendors[i]
        /\ r.by = <<b, i>> <=> r.detector \in call.missing
        /\ r.by = <<b, i>> => r.made >= call.started
        /\ r.by # <<b, i>> => Made(r.by, call.started - TTL)

\* What was made stays made when a call is given its results.
LEMMA DueStays ==
    ASSUME RunsInv, NEW b \in Batches, NEW i \in DOMAIN batches[b].calls, NEW call \in CallType,
           Due(b, i, call), batches'[b].vendors = batches[b].vendors,
           \A by \in Batches \X Nat, at \in Int : Made(by, at) => Made(by, at)'
    PROVE  Due(b, i, call)'
<1> SUFFICES ASSUME NEW r \in call.got, r.by # <<b, i>>
             PROVE  Made(r.by, call.started - TTL)'
  BY DEF Due
<1>1. Made(r.by, call.started - TTL)
  BY DEF Due
<1>2. call.got \subseteq ResultType /\ call.started \in Nat
  BY DEF CallType
<1>3. PICK by \in Batches \X Nat : by = r.by
  BY <1>2 DEF ResultType
<1>4. PICK at \in Int : at = call.started - TTL
  BY <1>2, DetectorRunsAssumption
<1> QED
  BY <1>1, <1>3, <1>4

\* A call that has everything returns: its answer is complete (_bounded).
LEMMA ReturnInv ==
    ASSUME RunsInv, NEW b \in Batches, batches[b].phase = "running",
           NEW i \in DOMAIN batches[b].calls, batches[b].calls[i].phase # "done",
           NEW call \in CallType, call.scan = "none", call.todo = {}, call.started <= clock,
           call.missing \subseteq Wanted(b),
           \A t \in Wanted(b) : Has(call, t), Due(b, i, call),
           batches' = Returned(b, i, call), clock' = clock
    PROVE  /\ batches' \in [Batches -> BatchType]
           /\ \A e \in Batches : BatchInv(e)'
           /\ \A by \in Batches \X Nat, at \in Int : Made(by, at) => Made(by, at)'
           /\ \A at \in Int : at <= clock => Made(<<b, i>>, at)'
<1> DEFINE d == batches[b].vendors[i]
<1>0. /\ TypeOK /\ batches[b] \in BatchType /\ d \in Domains /\ clock \in Nat
      /\ batches[b].answers \in [Domains -> Seq(ResultType)]
      /\ \A e \in Batches : BatchInv(e)
  BY DEF RunsInv, BatchInv, TypeOK, BatchType
<1>1. /\ Answer(b, call) \in Seq(ResultType)
      /\ Len(Answer(b, call)) = Len(Ordered(b))
      /\ DOMAIN Answer(b, call) = 1..Len(Ordered(b))
      /\ \A k \in 1..Len(Ordered(b)) :
            Answer(b, call)[k].detector = Ordered(b)[k] /\ Answer(b, call)[k].domain = d
  BY <1>0, AnswerComplete DEF Due
<1>2. PICK c : c = [call EXCEPT !.phase = "done", !.ended = clock]
  OBVIOUS
<1>3. PICK as : as = [batches[b].answers EXCEPT ![d] = Answer(b, call)]
  OBVIOUS
<1>4. c \in CallType /\ Moved(b, i, c, as)
  BY <1>0, <1>1, <1>2, <1>3, MovesBack
<1>5. /\ c.phase = "done" /\ c.ended = clock /\ c.got = call.got /\ c.missing = call.missing
      /\ c.scan = call.scan /\ c.todo = call.todo /\ c.started = call.started
  BY <1>2 DEF CallType
<1>6. /\ as \in [Domains -> Seq(ResultType)] /\ as[d] = Answer(b, call)
      /\ \A e \in Domains : e # d => as[e] = batches[b].answers[e]
  BY <1>0, <1>1, <1>3
<1>7. \A by \in Batches \X Nat, at \in Int : Made(by, at) => Made(by, at)'
  BY <1>0, <1>4, MovedMade
<1>8. /\ batches'[b].calls[i] = c /\ batches'[b].vendors = batches[b].vendors
      /\ batches'[b].answers = as /\ Ordered(b)' = Ordered(b) /\ Wanted(b)' = Wanted(b)
  BY <1>4 DEF Moved, Ordered, Wanted
<1>9. ASSUME NEW e, e = d
      PROVE  Complete(b, e)'
  BY <1>1, <1>6, <1>8, <1>9 DEF Complete
<1>10. CallInv(b, i)'
  <2>1. Placed(b, i)'
    BY <1>5, <1>8, <1>9 DEF Placed
  <2>2. Due(b, i, call)'
    BY <1>7, <1>8, DueStays
  <2>3. Given(b, i)'
    BY <1>5, <1>8, <2>2 DEF Given, Due
  <2> QED
    BY <1>5, <1>8, <2>1, <2>3 DEF CallInv, Covered
<1>11. \A e \in Batches : BatchInv(e)'
  BY <1>0, <1>4, <1>6, <1>9, <1>10, MovedInv
<1>12. \A at \in Int : at <= clock => Made(<<b, i>>, at)'
  BY <1>0, <1>4, <1>5, <1>8 DEF Moved, Made
<1> QED
  BY <1>4, <1>7, <1>11, <1>12 DEF Moved

\* Entries that are dropped or kept do no harm (get_cached).
LEMMA CacheStays ==
    ASSUME RunsInv, cache' \in [Domains -> [Types -> Entry \cup {NoEntry}]],
           \A d \in Domains, t \in Types : cache'[d][t] = cache[d][t] \/ cache'[d][t] = NoEntry,
           \A by \in Batches \X Nat, at \in Int : Made(by, at) => Made(by, at)'
    PROVE  CacheInv'
<1> SUFFICES ASSUME NEW d \in Domains, NEW t \in Types, cache'[d][t] # NoEntry
             PROVE  Earned(d, t, cache[d][t])'
  BY DEF CacheInv
<1>1. cache'[d][t] = cache[d][t] /\ cache[d][t] # NoEntry
  OBVIOUS
<1>2. PICK e : e = cache[d][t]
  OBVIOUS
<1>3. Earned(d, t, e)'
  BY <1>1, <1>2, EarnedStays DEF RunsInv
<1> QED
  BY <1>1, <1>2, <1>3 DEF Earned

\* A call begins: what the cache holds in time is given, the rest is missing.
LEMMA StartStep ==
    ASSUME RunsInv, NEW b \in Batches, NEW i \in DOMAIN batches[b].calls, StartCall(b, i)
    PROVE  RunsInv'
<1> DEFINE d == batches[b].vendors[i]
           hits == {t \in Wanted(b) : Hit(d, t)}
           missing == Wanted(b) \ hits
<1>0. /\ TypeOK /\ CacheInv /\ d \in Domains /\ clock \in Nat /\ TTL \in Nat
      /\ batches[b].phase = "running" /\ batches[b].calls[i].phase = "waiting"
      /\ UNCHANGED <<clock, restarts>> /\ i \in Nat
      /\ cache \in [Domains -> [Types -> Entry \cup {NoEntry}]]
      /\ \A e \in Batches : BatchInv(e)
  BY DetectorRunsAssumption, SMTT(30) DEF RunsInv, BatchInv, TypeOK, BatchType, StartCall
<1>1. Wanted(b) = ToSet(Ordered(b)) /\ Wanted(b) \subseteq Types
  BY <1>0, OrderedType DEF Wanted, ToSet
<1>2. PICK call :
        call = [phase |-> "fetching", got |-> {cache[d][t].result : t \in hits},
                missing |-> missing, todo |-> missing \cap Independent,
                scan |-> IF missing \cap Derived = {} THEN "none" ELSE "running",
                scanAt |-> 0, started |-> clock, ended |-> 0]
  OBVIOUS
<1>3. /\ batches' = IF missing = {} THEN Returned(b, i, call) ELSE CallTo(b, i, call)
      /\ cache' = LookedUp(d, Wanted(b))
  BY <1>1, <1>2 DEF StartCall, UseCache
<1>4. /\ call.phase = "fetching" /\ call.missing = missing /\ call.todo = missing \cap Independent
      /\ call.got = {cache[d][t].result : t \in hits} /\ call.started = clock
      /\ call.scan = IF missing \cap Derived = {} THEN "none" ELSE "running"
  BY <1>2, SMTT(30)
<1>5. ASSUME NEW t \in hits
      PROVE  /\ cache[d][t].result \in ResultType /\ cache[d][t].result.detector = t
             /\ cache[d][t].result.domain = d
             /\ Made(cache[d][t].result.by, clock - TTL)
             /\ cache[d][t].result.by # <<b, i>>
  <2>1. cache[d][t] # NoEntry /\ clock - cache[d][t].at <= TTL /\ t \in Types
    BY <1>1 DEF Hit
  <2>2. PICK e \in Entry : e = cache[d][t]
    BY <1>0, <2>1
  <2>3. Earned(d, t, e)
    BY <1>0, <2>1, <2>2 DEF CacheInv
  <2>4. e.result \in ResultType /\ e.at \in Nat
    BY DEF Entry
  <2>5. PICK by \in Batches \X Nat : by = e.result.by
    BY <2>4 DEF ResultType
  <2>6. Made(by, e.at)
    BY <2>3, <2>5 DEF Earned
  <2>7. batches[by[1]].calls[by[2]].ended \in Nat
    BY <1>0, <2>6, CallTypes DEF Made
  <2>8. Made(by, clock - TTL) /\ by # <<b, i>>
    BY <1>0, <2>1, <2>2, <2>4, <2>6, <2>7 DEF Made
  <2> QED
    BY <2>2, <2>3, <2>4, <2>5, <2>8 DEF Earned
<1>6. call \in CallType
  <2>1. call.got \subseteq ResultType
    BY <1>4, <1>5, SMTT(30)
  <2> QED
    BY <1>0, <1>1, <1>2, <1>4, <2>1 DEF CallType
<1>7. \A t \in hits : Has(call, t)
  BY <1>4, <1>5 DEF Has
<1>8. Due(b, i, call)
  BY <1>4, <1>5 DEF Due
<1>9. cache' \in [Domains -> [Types -> Entry \cup {NoEntry}]]
  BY <1>0, <1>3 DEF LookedUp
<1>10. \A e \in Domains, t \in Types : cache'[e][t] = cache[e][t] \/ cache'[e][t] = NoEntry
  BY <1>0, <1>3 DEF LookedUp
<1>11. CASE missing = {}
  <2>1. batches' = Returned(b, i, call) /\ call.scan = "none" /\ call.todo = {} /\ call.started <= clock
    BY <1>0, <1>3, <1>4, <1>11
  <2>2. \A t \in Wanted(b) : Has(call, t)
    BY <1>7, <1>11
  <2>3. /\ batches' \in [Batches -> BatchType]
        /\ \A e \in Batches : BatchInv(e)'
        /\ \A by \in Batches \X Nat, at \in Int : Made(by, at) => Made(by, at)'
    BY <1>0, <1>4, <1>6, <1>8, <2>1, <2>2, ReturnInv
  <2>4. CacheInv'
    BY <1>9, <1>10, <2>3, CacheStays
  <2> QED
    BY <1>0, <1>9, <2>3, <2>4 DEF RunsInv, TypeOK
<1>12. CASE missing # {}
  <2>1. Moved(b, i, call, batches[b].answers)
    BY <1>0, <1>3, <1>6, <1>12, MovesTo
  <2>2. \A by \in Batches \X Nat, at \in Int : Made(by, at) => Made(by, at)'
    BY <1>0, <1>6, <2>1, MovedMade
  <2>3. /\ batches'[b].calls[i] = call /\ batches'[b].vendors = batches[b].vendors
        /\ Wanted(b)' = Wanted(b)
    BY <2>1 DEF Moved, Wanted, Ordered
  <2>4. Placed(b, i)'
    BY <1>0, <1>4, <2>3 DEF Placed
  <2>5. Given(b, i)'
    BY <1>6, <1>8, <2>2, <2>3, DueStays DEF Given, Due
  <2>6. Covered(b, i)'
    BY <1>1, <1>4, <1>7, <2>3 DEF Covered, Types
  <2>7. \A e \in Batches : BatchInv(e)'
    BY <1>0, <1>6, <2>1, <2>4, <2>5, <2>6, MovedInv DEF CallInv, TypeOK, BatchType
  <2>8. CacheInv'
    BY <1>9, <1>10, <2>2, CacheStays
  <2> QED
    BY <1>0, <1>9, <2>1, <2>7, <2>8 DEF RunsInv, TypeOK, Moved
<1> QED
  BY <1>11, <1>12

\* A call ends: what it fetched goes into the cache, stamped with its end (set_cached).
LEMMA FinishStep ==
    ASSUME RunsInv, NEW b \in Batches, NEW i \in DOMAIN batches[b].calls, FinishCall(b, i)
    PROVE  RunsInv'
<1> DEFINE call == batches[b].calls[i]
           d == batches[b].vendors[i]
<1>0. /\ TypeOK /\ CacheInv /\ d \in Domains /\ clock \in Nat
      /\ batches[b].phase = "running" /\ call.phase = "fetching" /\ call.scan = "none" /\ call.todo = {}
      /\ UNCHANGED <<clock, restarts>> /\ call \in CallType
      /\ cache \in [Domains -> [Types -> Entry \cup {NoEntry}]]
      /\ batches' = Returned(b, i, call) /\ cache' = Stored(d, call)
      /\ CallInv(b, i)
  BY CallTypes DEF RunsInv, BatchInv, TypeOK, BatchType, FinishCall, UseCache
<1>1. \A t \in Wanted(b) : Has(call, t)
  BY <1>0 DEF CallInv, Covered
<1>2. Due(b, i, call) /\ call.started <= clock /\ call.missing \subseteq Wanted(b)
  BY <1>0 DEF CallInv, Given, Due, Placed
<1>3. /\ batches' \in [Batches -> BatchType]
      /\ \A e \in Batches : BatchInv(e)'
      /\ \A by \in Batches \X Nat, at \in Int : Made(by, at) => Made(by, at)'
      /\ \A at \in Int : at <= clock => Made(<<b, i>>, at)'
  BY <1>0, <1>1, <1>2, ReturnInv
<1>4. ASSUME NEW t \in call.missing, NEW r, r = Of(call.got, t)
      PROVE  /\ r \in ResultType /\ r.detector = t /\ r.domain = d /\ r.by = <<b, i>>
  <2>1. Has(call, t)
    BY <1>1, <1>2
  <2>2. r \in call.got /\ r.detector = t
    BY <1>4, <2>1 DEF Has, Of
  <2> QED
    BY <1>0, <1>2, <2>2 DEF Due, CallType
<1>5. \A e \in Domains, t \in Types :
         cache'[e][t] = IF e = d /\ t \in call.missing THEN [at |-> clock, result |-> Of(call.got, t)]
                                                      ELSE cache[e][t]
  BY <1>0 DEF Stored
<1>6. cache' \in [Domains -> [Types -> Entry \cup {NoEntry}]]
  <2>1. \A t \in call.missing : [at |-> clock, result |-> Of(call.got, t)] \in Entry
    BY <1>0, <1>4 DEF Entry
  <2> QED
    BY <1>0, <2>1 DEF Stored
<1>7. CacheInv'
  <2> SUFFICES ASSUME NEW e \in Domains, NEW t \in Types, cache'[e][t] # NoEntry
               PROVE  Earned(e, t, cache[e][t])'
    BY DEF CacheInv
  <2>1. PICK x : x = cache'[e][t]
    OBVIOUS
  <2>2. CASE e = d /\ t \in call.missing
    <3>1. PICK r : r = Of(call.got, t)
      OBVIOUS
    <3>2. x = [at |-> clock, result |-> r]
      BY <1>5, <2>1, <2>2, <3>1
    <3>3. r.detector = t /\ r.domain = d /\ r.by = <<b, i>>
      BY <1>4, <2>2, <3>1
    <3>4. PICK at \in Int : at = clock
      BY <1>0
    <3>5. Made(<<b, i>>, at)'
      BY <1>0, <1>3, <3>4
    <3> QED
      BY <2>1, <2>2, <3>2, <3>3, <3>4, <3>5 DEF Earned
  <2>3. CASE ~(e = d /\ t \in call.missing)
    <3>1. x = cache[e][t] /\ cache[e][t] # NoEntry
      BY <1>5, <2>1, <2>3
    <3>2. Earned(e, t, x)'
      BY <1>0, <1>3, <3>1, EarnedStays
    <3> QED
      BY <2>1, <3>2 DEF Earned
  <2> QED
    BY <2>2, <2>3
<1> QED
  BY <1>0, <1>3, <1>6, <1>7 DEF RunsInv, TypeOK

-----------------------------------------------------------------------------
(* The other steps, and the theorems.                                      *)

\* A batch whose calls stay as they are keeps its part of the invariant.
LEMMA BatchFrame ==
    ASSUME RunsInv, NEW e \in Batches, clock' \in Nat, clock' >= clock,
           batches'[e].calls = batches[e].calls, batches'[e].vendors = batches[e].vendors,
           batches'[e].types = batches[e].types, batches'[e].answers = batches[e].answers,
           batches'[e].phase = "none" => batches[e].phase = "none",
           batches'[e].phase = "done" => \A i \in DOMAIN batches[e].calls : batches[e].calls[i].phase = "done",
           \A by \in Batches \X Nat, at \in Int : Made(by, at) => Made(by, at)'
    PROVE  BatchInv(e)'
<1>0. BatchInv(e) /\ TypeOK /\ clock \in Nat
  BY DEF RunsInv, TypeOK
<1>1. Ordered(e)' = Ordered(e) /\ Wanted(e)' = Wanted(e)
  BY DEF Ordered, Wanted
<1>2. \A d \in Domains : Complete(e, d) => Complete(e, d)'
  BY <1>1 DEF Complete
<1>3. ASSUME NEW j \in DOMAIN batches[e].calls
      PROVE  CallInv(e, j)'
  <2>1. CallInv(e, j) /\ batches[e].vendors[j] \in Domains /\ batches[e].calls[j].started \in Nat
    BY <1>0, CallTypes DEF BatchInv, BatchType
  <2>2. Placed(e, j)'
    BY <1>0, <1>1, <1>2, <2>1 DEF CallInv, Placed
  <2>3. Due(e, j, batches[e].calls[j])
    BY <2>1 DEF CallInv, Given, Due
  <2>4. PICK call \in CallType : call = batches[e].calls[j]
    BY <1>0, CallTypes
  <2>5. Due(e, j, call)'
    BY <2>3, <2>4, DueStays
  <2>6. Given(e, j)'
    BY <2>4, <2>5 DEF Given, Due
  <2>7. Covered(e, j)'
    BY <1>1, <2>1 DEF CallInv, Covered
  <2> QED
    BY <2>2, <2>6, <2>7 DEF CallInv
<1> QED
  BY <1>0, <1>3 DEF BatchInv

\* A batch begins with calls that wait and have nothing (run_detectors_for_vendors).
LEMMA StartBatchStep ==
    ASSUME RunsInv, NEW b \in Batches, StartBatch(b)
    PROVE  RunsInv'
<1>0. /\ TypeOK /\ CacheInv /\ BatchInv(b) /\ batches[b].phase = "none" /\ clock \in Nat
      /\ batches \in [Batches -> BatchType] /\ UNCHANGED <<cache, clock, restarts>>
  BY DEF RunsInv, TypeOK, StartBatch
<1>1. PICK vs \in VendorLists, ts \in Selections, scheduled \in BOOLEAN :
        batches' = [batches EXCEPT ![b] =
            [phase |-> "running", scheduled |-> scheduled, vendors |-> vs, types |-> ts,
             calls |-> [i \in DOMAIN vs |-> NewCall], answers |-> NoBatch.answers]]
  BY DEF StartBatch
<1>2. vs \in Seq(Domains) /\ ts \in Seq(Types)
  BY DetectorRunsAssumption
<1>3. NewCall \in CallType
  BY DEF NewCall, CallType
<1>4. PICK cs : cs = [i \in DOMAIN vs |-> NewCall]
  OBVIOUS
<1>5. cs \in Seq(CallType) /\ DOMAIN cs = DOMAIN vs /\ \A i \in DOMAIN vs : cs[i] = NewCall
  BY <1>2, <1>3, <1>4
<1>6. NoBatch.answers \in [Domains -> Seq(ResultType)]
  BY DEF NoBatch
<1>7. PICK x : x = [phase |-> "running", scheduled |-> scheduled, vendors |-> vs, types |-> ts,
                    calls |-> cs, answers |-> NoBatch.answers]
  OBVIOUS
<1>8. x \in BatchType /\ x.phase = "running" /\ x.vendors = vs /\ x.calls = cs
  BY <1>2, <1>5, <1>6, <1>7 DEF BatchType
<1>9. batches' = [batches EXCEPT ![b] = x]
  BY <1>1, <1>4, <1>7
<1>10. /\ batches' \in [Batches -> BatchType] /\ batches'[b] = x
       /\ \A e \in Batches : e # b => batches'[e] = batches[e]
  BY <1>0, <1>8, <1>9
<1>11. \A by \in Batches \X Nat, at \in Int : Made(by, at) => Made(by, at)'
  <2>1. batches[b].calls = <<>>
    BY <1>0 DEF BatchInv
  <2> QED
    BY <1>10, <2>1 DEF Made
<1>12. BatchInv(b)'
  <2>1. ASSUME NEW i \in DOMAIN vs
        PROVE  CallInv(b, i)'
    <3>1. /\ batches'[b].calls[i] = NewCall /\ NewCall.phase = "waiting" /\ NewCall.got = {}
          /\ NewCall.scan = "none" /\ NewCall.todo = {} /\ NewCall.missing = {} /\ NewCall.started = 0
      BY <1>5, <1>8, <1>10 DEF NewCall
    <3>2. Placed(b, i)' /\ Given(b, i)' /\ Covered(b, i)'
      BY <1>0, <3>1 DEF Placed, Given, Covered
    <3> QED
      BY <3>2 DEF CallInv
  <2> QED
    BY <1>5, <1>8, <1>10, <2>1 DEF BatchInv
<1>13. ASSUME NEW e \in Batches, e # b
       PROVE  BatchInv(e)'
  BY <1>0, <1>10, <1>11, <1>13, BatchFrame DEF RunsInv, BatchInv
<1>14. TypeOK'
  BY <1>0, <1>10 DEF TypeOK
<1>15. CacheInv'
  BY <1>0, <1>11, <1>14, CacheStays DEF TypeOK
<1> QED
  BY <1>12, <1>13, <1>14, <1>15 DEF RunsInv

\* The end of a batch, the clock, and a restart, which empties the cache.
LEMMA OtherStep ==
    ASSUME RunsInv, (\E b \in Batches : FinishBatch(b)) \/ Tick \/ Restart
    PROVE  RunsInv'
<1>0. /\ TypeOK /\ CacheInv /\ clock \in Nat /\ restarts \in Nat
      /\ batches \in [Batches -> BatchType] /\ cache \in [Domains -> [Types -> Entry \cup {NoEntry}]]
  BY DEF RunsInv, TypeOK
<1>1. /\ clock' \in Nat /\ clock' >= clock /\ restarts' \in Nat
      /\ cache' \in [Domains -> [Types -> Entry \cup {NoEntry}]]
      /\ \A d \in Domains, t \in Types : cache'[d][t] = cache[d][t] \/ cache'[d][t] = NoEntry
  BY <1>0 DEF FinishBatch, Tick, Restart
<1>2. /\ batches' \in [Batches -> BatchType]
      /\ \A e \in Batches :
            /\ batches'[e].calls = batches[e].calls /\ batches'[e].vendors = batches[e].vendors
            /\ batches'[e].types = batches[e].types /\ batches'[e].answers = batches[e].answers
            /\ batches'[e].phase = "none" => batches[e].phase = "none"
            /\ batches'[e].phase = "done" =>
                  \A i \in DOMAIN batches[e].calls : batches[e].calls[i].phase = "done"
  <2>0. \A e \in Batches : batches[e].phase = "done" =>
           \A i \in DOMAIN batches[e].calls : batches[e].calls[i].phase = "done"
    BY DEF RunsInv, BatchInv
  <2>1. ASSUME NEW x \in BatchType, NEW p \in {"done", "lost"}, NEW y, y = [x EXCEPT !.phase = p]
        PROVE  /\ y \in BatchType /\ y.phase = p /\ y.calls = x.calls /\ y.vendors = x.vendors
               /\ y.types = x.types /\ y.answers = x.answers
    BY <2>1 DEF BatchType
  <2>2. CASE \E b \in Batches : FinishBatch(b)
    <3>1. PICK b \in Batches : FinishBatch(b)
      BY <2>2
    <3>2. PICK y : y = [batches[b] EXCEPT !.phase = "done"]
      OBVIOUS
    <3>3. batches' = [batches EXCEPT ![b] = y]
      BY <3>1, <3>2 DEF FinishBatch
    <3> QED
      BY <1>0, <2>0, <2>1, <3>1, <3>2, <3>3 DEF FinishBatch
  <2>3. CASE Tick
    BY <1>0, <2>0, <2>3 DEF Tick
  <2>4. CASE Restart
    <3>1. DOMAIN batches' = Batches
      BY <2>4 DEF Restart
    <3>2. ASSUME NEW e \in Batches
          PROVE  batches'[e] = batches[e] \/ batches'[e] = [batches[e] EXCEPT !.phase = "lost"]
      BY <2>4 DEF Restart
    <3>3. batches' = [e \in Batches |-> batches'[e]]
      BY <2>4 DEF Restart
    <3> QED
      BY <1>0, <2>0, <2>1, <3>2, <3>3
  <2> QED
    BY <2>2, <2>3, <2>4
<1>3. \A by \in Batches \X Nat, at \in Int : Made(by, at) => Made(by, at)'
  BY <1>2 DEF Made
<1>4. \A e \in Batches : BatchInv(e)'
  BY <1>1, <1>2, <1>3, BatchFrame
<1>5. CacheInv'
  BY <1>1, <1>3, CacheStays
<1> QED
  BY <1>1, <1>2, <1>4, <1>5 DEF RunsInv, TypeOK

\* The invariant of the calls, the answers and the cache.
LEMMA RunsInvHolds == Spec => []RunsInv
<1>1. Init => RunsInv
  <2> SUFFICES ASSUME Init
               PROVE  RunsInv
    OBVIOUS
  <2>1. NoBatch \in BatchType /\ NoBatch.phase = "none" /\ NoBatch.calls = <<>> /\ NoBatch.vendors = <<>>
    BY DEF NoBatch, BatchType
  <2>2. /\ batches \in [Batches -> BatchType] /\ cache \in [Domains -> [Types -> Entry \cup {NoEntry}]]
        /\ \A b \in Batches : batches[b] = NoBatch
        /\ \A d \in Domains, t \in Types : cache[d][t] = NoEntry
    BY <2>1 DEF Init
  <2>3. TypeOK /\ CacheInv
    BY <2>2 DEF Init, TypeOK, CacheInv
  <2>4. \A b \in Batches : BatchInv(b)
    BY <2>1, <2>2 DEF BatchInv
  <2> QED
    BY <2>3, <2>4 DEF RunsInv
<1>2. RunsInv /\ [Next]_vars => RunsInv'
  <2> SUFFICES ASSUME RunsInv, [Next]_vars
               PROVE  RunsInv'
    OBVIOUS
  <2>1. CASE UNCHANGED vars
    <3>1. TypeOK'
      BY <2>1 DEF vars, RunsInv, TypeOK
    <3>2. \A by \in Batches \X Nat, at \in Int : Made(by, at) => Made(by, at)'
      BY <2>1 DEF vars, Made
    <3>3. \A b \in Batches : BatchInv(b)'
      BY <2>1, <3>1, <3>2, BatchFrame DEF vars, RunsInv, TypeOK, BatchInv
    <3>4. CacheInv'
      BY <2>1, <3>1, <3>2, CacheStays DEF vars, TypeOK
    <3> QED
      BY <3>1, <3>3, <3>4 DEF RunsInv
  <2>2. ASSUME NEW b \in Batches, StartBatch(b) \/ BatchStep(b)
        PROVE  RunsInv'
    BY <2>2, StartBatchStep, StartStep, ScanStep, FinishStep, IndependentStep, OtherStep DEF BatchStep
  <2> QED
    BY <2>1, <2>2, OtherStep DEF Next
<1> QED
  BY <1>1, <1>2, PTL DEF Spec

\* Every variable has its type.
THEOREM RunTypes == Spec => []TypeOK
<1>1. RunsInv => TypeOK
  BY DEF RunsInv
<1> QED
  BY <1>1, RunsInvHolds, PTL

\* When a batch is done, the answer for every vendor has one result per type
\* asked for, in the order asked for (run_detectors_for_vendor).
THEOREM AnswersAreComplete == Spec => []AnswersComplete
<1>1. RunsInv => AnswersComplete
  <2> SUFFICES ASSUME RunsInv, NEW b \in Batches, batches[b].phase = "done",
                      NEW i \in DOMAIN batches[b].vendors
               PROVE  Complete(b, batches[b].vendors[i])
    BY DEF AnswersComplete, Complete
  <2>1. i \in DOMAIN batches[b].calls /\ batches[b].calls[i].phase = "done" /\ Placed(b, i)
    BY DEF RunsInv, BatchInv, CallInv
  <2> QED
    BY <2>1 DEF Placed
<1> QED
  BY <1>1, RunsInvHolds, PTL

\* No call is given a result of a call that ended longer than the lifetime
\* before it began (get_cached, set_cached).
THEOREM AnswersAreRecent == Spec => []AnswersRecent
<1>1. RunsInv => AnswersRecent
  <2> SUFFICES ASSUME RunsInv, NEW b \in Batches, NEW i \in DOMAIN batches[b].calls,
                      NEW r \in batches[b].calls[i].got, r.by # <<b, i>>
               PROVE  /\ batches[r.by[1]].calls[r.by[2]].phase = "done"
                      /\ batches[b].calls[i].started - batches[r.by[1]].calls[r.by[2]].ended <= TTL
    BY DEF RunsInv, BatchInv, CallInv, Given, AnswersRecent
  <2>1. Made(r.by, batches[b].calls[i].started - TTL) /\ TypeOK
    BY DEF RunsInv, BatchInv, CallInv, Given
  <2>2. PICK by \in Batches \X Nat : by = r.by
    BY <2>1, CallTypes
  <2>3. batches[by[1]].calls[by[2]].ended \in Nat /\ batches[b].calls[i].started \in Nat /\ TTL \in Nat
    BY <2>1, <2>2, CallTypes, DetectorRunsAssumption DEF Made
  <2> QED
    BY <2>1, <2>2, <2>3 DEF Made
<1> QED
  BY <1>1, RunsInvHolds, PTL

=============================================================================
