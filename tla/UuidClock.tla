------------------------------ MODULE UuidClock ------------------------------
(***************************************************************************)
(* The generator of primary keys (uuid.go): one atomic word that holds the *)
(* millisecond and a counter, advanced by compare-and-swap from whatever   *)
(* the goroutine's clock said.  The wall clock may stand still, jump and   *)
(* run backwards.  The random tail of a key is left out: order and         *)
(* uniqueness within the process rest on the (ms, counter) pair alone.     *)
(***************************************************************************)
EXTENDS Naturals, Sequences

CONSTANTS
    Goroutines,
    CMax,       \* the largest counter (0x0FFF)
    Field,      \* the values of the counter's field in the word (2^16)
    MaxMs,      \* bound on the wall clock
    MaxClaims   \* bound on the keys generated

ASSUME ClockShape == CMax \in Nat /\ Field \in Nat /\ CMax + 1 < Field
ASSUME ClockBounds == MaxMs \in Nat /\ MaxClaims \in Nat

VARIABLES
    uuidStamp,  \* the word: ms * Field + counter
    gor,        \* gor[g]: what a goroutine is doing, its clock reading and the word it saw
    claimed     \* the keys generated, in the order of their claims, with the clock reading

clockVars == <<uuidStamp, gor, claimed>>

Ms(w) == w \div Field
Ctr(w) == w % Field
\* NewUUIDv7 stores the low bits of the counter only.
NewUUIDv7(w) == [ms |-> Ms(w), ctr |-> Ctr(w) % (CMax + 1)]
Idle == [at |-> "idle", now |-> 0, cur |-> 0]

ClockTypeOK ==
    /\ uuidStamp \in Nat /\ Ctr(uuidStamp) <= CMax     \* "the low word never exceeds 0x0FFF"
    /\ gor \in [Goroutines -> [at : {"idle", "load", "cas"}, now : 0..MaxMs, cur : Nat]]
    /\ \A g \in Goroutines : gor[g].at # "idle" => gor[g].now > 0
    /\ claimed \in Seq([id : [ms : Nat, ctr : 0..CMax], now : 1..MaxMs]) /\ Len(claimed) <= MaxClaims

ClockInit == uuidStamp = 0 /\ gor = [g \in Goroutines |-> Idle] /\ claimed = << >>

\* A fresh millisecond restarts the counter; otherwise it counts on, and borrows from
\* the next millisecond when it is exhausted.
Advance(cur, now) ==
    IF now > Ms(cur) THEN now * Field
    ELSE IF Ctr(cur + 1) > CMax THEN (Ms(cur) + 1) * Field ELSE cur + 1

ReadClock(g, now) ==
    /\ gor[g].at = "idle"
    /\ gor' = [gor EXCEPT ![g] = [at |-> "load", now |-> now, cur |-> 0]]
    /\ UNCHANGED <<uuidStamp, claimed>>

LoadStamp(g) ==
    /\ gor[g].at = "load"
    /\ gor' = [gor EXCEPT ![g].at = "cas", ![g].cur = uuidStamp]
    /\ UNCHANGED <<uuidStamp, claimed>>

\* Mutant of CompareAndSwap: the new word is stored without the comparison.
StoreStamp(g) ==
    /\ gor[g].at = "cas"
    /\ Len(claimed) < MaxClaims
    /\ LET nxt == Advance(gor[g].cur, gor[g].now)
       IN  /\ uuidStamp' = nxt
           /\ claimed' = Append(claimed, [id |-> NewUUIDv7(nxt), now |-> gor[g].now])
           /\ gor' = [gor EXCEPT ![g] = Idle]

\* A failed swap loads the word again.
CompareAndSwap(g) ==
    /\ gor[g].at = "cas"
    /\ Len(claimed) < MaxClaims
    /\ LET nxt == Advance(gor[g].cur, gor[g].now)
       IN  IF uuidStamp = gor[g].cur
           THEN /\ uuidStamp' = nxt
                /\ claimed' = Append(claimed, [id |-> NewUUIDv7(nxt), now |-> gor[g].now])
                /\ gor' = [gor EXCEPT ![g] = Idle]
           ELSE gor' = [gor EXCEPT ![g] = [@ EXCEPT !.at = "load", !.cur = 0]] /\ UNCHANGED <<uuidStamp, claimed>>

ClockNext ==
    \E g \in Goroutines : \/ \E now \in 1..MaxMs : ReadClock(g, now)
                          \/ LoadStamp(g) \/ CompareAndSwap(g)

ClockSpec == ClockInit /\ [][ClockNext]_clockVars

----------------------------------------------------------------------------

Before(x, y) == x.ms < y.ms \/ (x.ms = y.ms /\ x.ctr < y.ctr)

\* "IDs from this process sort by creation time, including inside one millisecond":
\* the keys as encoded strictly increase in the order of their claims, whatever the
\* clock does and however the goroutines interleave.
IdsIncrease == \A i, j \in DOMAIN claimed : i < j => Before(claimed[i].id, claimed[j].id)

\* A key is never older than the clock its goroutine read, and runs ahead of every
\* clock read so far only by the milliseconds whose counters were used up.
DriftIsEarned ==
    \A i \in DOMAIN claimed :
        /\ claimed[i].id.ms >= claimed[i].now
        /\ \E j \in 1..i : claimed[i].id.ms <= claimed[j].now + (i - j) \div (CMax + 1)

\* The word is the last key claimed, and a key's rank among all (ms, counter) pairs
\* has moved on from some clock reading by one a claim at most.
StampIsLast ==
    IF claimed = << >> THEN uuidStamp = 0 ELSE claimed[Len(claimed)].id = NewUUIDv7(uuidStamp)
Rank(id) == id.ms * (CMax + 1) + id.ctr
DriftIsCounted ==
    \A i \in DOMAIN claimed :
        \E j \in 1..i : Rank(claimed[i].id) <= claimed[j].now * (CMax + 1) + (i - j)

\* The clock at every step of the goroutines: keys sort by creation, and leave the
\* wall clock only as far as exhausted milliseconds force them to.  The second and
\* third part make it inductive.
ClockInv ==
    /\ ClockTypeOK
    /\ StampIsLast
    /\ DriftIsCounted
    /\ IdsIncrease
    /\ DriftIsEarned
=============================================================================
