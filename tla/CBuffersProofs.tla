---------------------------- MODULE CBuffersProofs ----------------------------
(***************************************************************************)
(* Nothing that the C wrapper hands out is freed twice, and nothing leaks  *)
(* but what a panicking callback leaves, for any number of calls.          *)
(***************************************************************************)
EXTENDS CBuffers, TLAPS

(* What a struct holds, and that no two of its fields share a block. *)
LEMMA BlocksDef == \A s, b : b \in Blocks(s) <=> \E f \in AllFields : b \in s[f]
  BY DEF Blocks

Distinct(s) == \A f, g \in AllFields : f # g => s[f] \cap s[g] = {}
Within(s, fields) == \A f \in AllFields : s[f] # {} => f \in fields

(* Every field that is filled is freed: the fill_* functions and the zgrpc_*_free      *)
(* functions agree on each struct, and a reply_ex is filled before it is moved.        *)
LEMMA FilledFreed ==
    ASSUME NEW t \in Types, NEW w \in Carries(t)
    PROVE  /\ Filled(t, w) \subseteq Freed(t)
           /\ t = "reply" => Filled("reply_ex", w) \subseteq Freed("reply_ex")
  BY DEF Types, Carries, Filled, Freed, SampleFields, QueryFields, SampleExFields,
         QueryExFields, ErrorFields, SampleFreed, QueryFreed, ReplyFreed, SampleExFreed,
         QueryExFreed, ErrorFreed

LEMMA FreedFields == \A t \in Types : Freed(t) \subseteq AllFields
  BY DEF Types, Freed, AllFields, SampleExFields, QueryExFields, ErrorFields, SampleFreed,
         QueryFreed, ReplyFreed, SampleExFreed, QueryExFreed, ErrorFreed

(* The inductive invariant: the wrapper's struct is empty when nobody is in a call,    *)
(* what is filled is within what the next free frees, the application's struct is      *)
(* empty while a reply is on its way to it and unwritten only before the first call    *)
(* that writes it.                                                                    *)
Old == \A b \in heap : b.call < calls
FillInv ==
    /\ Within(out, Freed(type))
    /\ pcB = "app" => local = Empty
    /\ pcB = "callback" => Within(local, Freed(type))
    /\ pcB \in {"move", "error", "free"} => type = "reply" /\ Within(local, Freed("reply_ex"))
    /\ pcB \in {"move", "error"} => out = Empty /\ rc = "ok"
RawInv ==
    /\ raw => out = Empty
    /\ raw /\ type # "reply" => rc = "none"
    /\ raw /\ rc = "ok" => pcB \in {"move", "error"}
MemInv == BTypeOK /\ OwnedOnce /\ Old /\ FillInv /\ RawInv /\ NoBadFree

LEMMA EmptyFacts ==
    /\ Empty \in [AllFields -> SUBSET Block] /\ Blocks(Empty) = {} /\ Distinct(Empty)
    /\ \A fields : Within(Empty, fields)
  BY BlocksDef DEF Empty, Distinct, Within

(* A struct that is filled holds new blocks, one for each field at most. *)
LEMMA FillFacts ==
    ASSUME calls \in Nat, Old, NEW fields, NEW full
    PROVE  /\ Fill(fields, full) \in [AllFields -> SUBSET Block]
           /\ Distinct(Fill(fields, full)) /\ Within(Fill(fields, full), fields)
           /\ Blocks(Fill(fields, full)) \subseteq Block
           /\ Allocated(Fill(fields, full)) = Blocks(Fill(fields, full))
           /\ \A b \in Blocks(Fill(fields, full)) : b \notin heap /\ b.call < calls + 1
<1> DEFINE s == Fill(fields, full)
<1>1. \A f \in AllFields : s[f] = {} \/ s[f] = {[call |-> calls, field |-> f, len |-> 1]}
  BY DEF Fill
<1>2. \A f \in AllFields : [call |-> calls, field |-> f, len |-> 1] \in Block
  BY DEF Block
<1>3. s \in [AllFields -> SUBSET Block]
  BY <1>2 DEF Fill
<1>4. \A f \in AllFields : \A b \in s[f] : b.field = f /\ b.call = calls
  BY <1>1
<1>5. Distinct(s)
  BY <1>4 DEF Distinct
<1>6. Within(s, fields)
  BY DEF Within, Fill
<1>7. Blocks(s) \subseteq Block
  BY <1>3, BlocksDef
<1>8. \A b \in Blocks(s) : b \notin heap /\ b.call < calls + 1
  BY <1>4, BlocksDef DEF Old
<1>9. \A b \in Block : [b EXCEPT !.len = CapacityOfCopy(@)] = b
  BY DEF Block, CapacityOfCopy
<1>10. Allocated(s) = Blocks(s)
  BY <1>7, <1>9 DEF Allocated
<1> QED BY <1>3, <1>5, <1>6, <1>7, <1>8, <1>10

(* Freeing all that a struct holds, when it owns its blocks. *)
LEMMA FreeFacts ==
    ASSUME NEW s, NEW fields \in SUBSET AllFields, Within(s, fields), Distinct(s),
           Blocks(s) \subseteq heap, NoBadFree, FreeFields(s, fields)
    PROVE  heap' = heap \ Blocks(s) /\ NoBadFree'
<1>1. \A b : b \in Blocks(s) <=> \E f \in fields : b \in s[f]
  BY BlocksDef DEF Within
<1>2. UNION {s[f] : f \in fields} = Blocks(s)
  BY <1>1
<1>3. \A f \in fields : s[f] \subseteq heap
  BY BlocksDef
<1>4. \A f, g \in fields : f # g => s[f] \cap s[g] = {}
  BY DEF Distinct
<1> QED BY <1>2, <1>3, <1>4 DEF FreeFields, NoBadFree

LEMMA OwnedDef ==
    OwnedOnce <=> /\ heap = Blocks(out) \cup Blocks(local) \cup leaked
                  /\ Blocks(out) \cap Blocks(local) = {}
                  /\ leaked \cap (Blocks(out) \cup Blocks(local)) = {}
                  /\ Distinct(out) /\ Distinct(local)
  BY DEF OwnedOnce, Distinct

LEMMA MemInit == BInit => MemInv
<1> SUFFICES ASSUME BInit PROVE MemInv
  OBVIOUS
<1>1. BTypeOK
  BY EmptyFacts DEF BInit, BTypeOK
<1>2. OwnedOnce
  BY EmptyFacts, OwnedDef DEF BInit
<1>3. Old /\ FillInv /\ RawInv /\ NoBadFree
  BY EmptyFacts DEF BInit, Old, FillInv, RawInv, NoBadFree
<1> QED BY <1>1, <1>2, <1>3 DEF MemInv
LEMMA OwnedNext ==
    ASSUME heap' = Blocks(out') \cup Blocks(local') \cup leaked',
           Blocks(out') \cap Blocks(local') = {},
           leaked' \cap (Blocks(out') \cup Blocks(local')) = {},
           Distinct(out'), Distinct(local')
    PROVE  OwnedOnce'
  BY DEF OwnedOnce, Distinct, Blocks

LEMMA OldGrows ==
    ASSUME BTypeOK, Old
    PROVE  \A b \in heap : b.call < calls + 1
<1>1. \A b \in heap : b.call < calls /\ b.call \in Nat
  BY DEF Old, BTypeOK, Block
<1> QED BY <1>1 DEF BTypeOK

LEMMA OldFree ==
    ASSUME Old, heap' \subseteq heap, calls' = calls
    PROVE  Old'
  BY DEF Old

(* The application's struct, or a struct of the wrapper's, is filled with a message. *)
LEMMA RecvStep ==
    ASSUME MemInv, Recv \/ RecvFails
    PROVE  MemInv'
<1> USE DEF MemInv
<1>1. pcB = "app" /\ Blocks(out) = {} /\ calls \in Nat /\ calls' = calls + 1 /\ raw' = FALSE
      /\ type # "reply" /\ UNCHANGED <<type, local, pcB, badFree, leaked>> /\ local = Empty
      /\ heap = leaked /\ heap \subseteq Block
  BY EmptyFacts, OwnedDef DEF Recv, RecvFails, Reusable, NextCall, BTypeOK, FillInv
<1>2. /\ out' \in [AllFields -> SUBSET Block] /\ Distinct(out') /\ Within(out', Freed(type))
      /\ heap' = leaked \cup Blocks(out') /\ heap' \subseteq Block
      /\ leaked \cap Blocks(out') = {} /\ \A b \in Blocks(out') : b.call < calls + 1
      /\ rc' \in {"ok", "error"}
  <2>1. CASE RecvFails
    BY <1>1, <2>1, EmptyFacts DEF RecvFails
  <2>2. CASE Recv
    <3>1. PICK m \in Messages :
             /\ m.what \in Carries(type)
             /\ out' = Fill(Filled(type, m.what), m.full)
             /\ heap' = heap \cup Allocated(out')
             /\ rc' = IF m.what = "none" THEN "error" ELSE "ok"
      BY <2>2 DEF Recv
    <3>2. Filled(type, m.what) \subseteq Freed(type)
      BY <3>1, FilledFreed DEF BTypeOK
    <3>3. Within(out', Freed(type))
      BY <3>1, <3>2, <1>1, FillFacts DEF Within
    <3>4. out' \in [AllFields -> SUBSET Block] /\ Distinct(out') /\ Blocks(out') \subseteq Block
          /\ Allocated(out') = Blocks(out')
          /\ \A b \in Blocks(out') : b \notin heap /\ b.call < calls + 1
      BY <3>1, <1>1, FillFacts
    <3> QED BY <1>1, <3>1, <3>3, <3>4
  <2> QED BY <2>1, <2>2
<1>3. BTypeOK'
  <2>1. local' \in [AllFields -> SUBSET Block] /\ badFree' \in BOOLEAN /\ raw' \in BOOLEAN
        /\ type' \in Types /\ pcB' \in {"app", "callback", "move", "error", "free", "aborted"}
        /\ leaked' \subseteq Block
    BY <1>1 DEF BTypeOK
  <2>2. calls' \in Nat /\ rc' \in {"none", "ok", "error"}
    BY <1>1, <1>2
  <2> QED BY <1>2, <2>1, <2>2 DEF BTypeOK
<1>4. OwnedOnce'
  BY <1>1, <1>2, EmptyFacts, OwnedNext
<1>5. Old'
  BY <1>1, <1>2, OldGrows DEF Old
<1>6. FillInv' /\ RawInv' /\ NoBadFree'
  BY <1>1, <1>2 DEF FillInv, RawInv, NoBadFree
<1> QED BY <1>3, <1>4, <1>5, <1>6

(* A panic in a call of the application ends the process. *)
LEMMA AbortsStep ==
    ASSUME MemInv, RecvAborts
    PROVE  MemInv'
<1> USE DEF MemInv
<1>1. calls' = calls + 1 /\ calls \in Nat /\ pcB = "app" /\ pcB' = "aborted"
      /\ UNCHANGED <<type, heap, out, raw, local, rc, badFree, leaked>>
  BY DEF RecvAborts, Reusable, NextCall, BTypeOK
<1>2. BTypeOK'
  BY <1>1 DEF BTypeOK
<1>3. OwnedOnce'
  BY <1>1, OwnedDef, OwnedNext
<1>4. Old'
  BY <1>1, OldGrows DEF Old
<1>5. FillInv' /\ RawInv' /\ NoBadFree'
  BY <1>1 DEF FillInv, RawInv, NoBadFree
<1> QED BY <1>2, <1>3, <1>4, <1>5

(* zgrpc_*_free on the application's struct. *)
LEMMA AppFreeStep ==
    ASSUME MemInv, AppFree
    PROVE  MemInv'
<1> USE DEF MemInv
<1>1. pcB = "app" /\ local = Empty /\ UNCHANGED <<type, calls, local, pcB, rc, leaked>>
      /\ type \in Types
  BY DEF AppFree, FillInv, BTypeOK
<1>2. ~raw
  BY DEF AppFree, RawInv
<1>3. FreeFields(out, Freed(type)) /\ out' = Empty /\ raw' = raw
  BY <1>2 DEF AppFree
<1>4. heap' = heap \ Blocks(out) /\ NoBadFree'
  BY <1>1, <1>3, FreeFacts, FreedFields, OwnedDef DEF FillInv
<1>5. heap' = leaked /\ leaked \subseteq heap
  BY <1>1, <1>4, OwnedDef, EmptyFacts
<1>6. BTypeOK'
  <2>1. badFree' \in BOOLEAN
    BY <1>3 DEF FreeFields
  <2>2. heap' \subseteq Block /\ leaked' \subseteq Block
    BY <1>1, <1>5 DEF BTypeOK
  <2> QED BY <1>1, <1>3, <2>1, <2>2, EmptyFacts DEF BTypeOK
<1>7. OwnedOnce'
  BY <1>1, <1>3, <1>5, EmptyFacts, OwnedNext
<1>8. Old' /\ FillInv' /\ RawInv'
  BY <1>1, <1>2, <1>3, <1>5, EmptyFacts DEF Old, FillInv, RawInv
<1> QED BY <1>4, <1>6, <1>7, <1>8

(* A struct of the wrapper's is filled, for a callback or by zgrpc_querier_get. *)
LEMMA LocalFilled ==
    ASSUME MemInv, pcB = "app", NEW fields, NEW full,
           local' = Fill(fields, full), heap' = heap \cup Allocated(local'),
           out' = out, calls' = calls + 1, leaked' = leaked
    PROVE  /\ local' \in [AllFields -> SUBSET Block] /\ heap' \subseteq Block
           /\ Within(local', fields) /\ OwnedOnce' /\ Old'
<1> USE DEF MemInv
<1>1. calls \in Nat /\ heap \subseteq Block /\ heap = Blocks(out) \cup leaked /\ Distinct(out)
      /\ leaked \cap Blocks(out) = {}
  BY EmptyFacts, OwnedDef DEF BTypeOK, FillInv
<1>2. /\ local' \in [AllFields -> SUBSET Block] /\ Distinct(local') /\ Within(local', fields)
      /\ Blocks(local') \subseteq Block /\ Allocated(local') = Blocks(local')
      /\ \A b \in Blocks(local') : b \notin heap /\ b.call < calls + 1
  BY <1>1, FillFacts
<1>3. OwnedOnce'
  BY <1>1, <1>2, OwnedNext
<1>4. Old'
  BY <1>1, <1>2, OldGrows DEF Old
<1> QED BY <1>1, <1>2, <1>3, <1>4

LEMMA LentStep ==
    ASSUME MemInv, CallbackLent
    PROVE  MemInv'
<1> USE DEF MemInv
<1>1. pcB = "app" /\ type \in Types /\ type # "reply" /\ pcB' = "callback"
      /\ calls' = calls + 1 /\ calls \in Nat /\ UNCHANGED <<type, out, raw, rc, badFree, leaked>>
  BY DEF CallbackLent, NextCall, BTypeOK
<1>2. PICK m \in Messages :
         /\ m.what \in Carries(type)
         /\ local' = Fill(Filled(type, m.what), m.full)
         /\ heap' = heap \cup Allocated(local')
  BY DEF CallbackLent
<1>3. Filled(type, m.what) \subseteq Freed(type)
  BY <1>1, <1>2, FilledFreed
<1>4. /\ local' \in [AllFields -> SUBSET Block] /\ heap' \subseteq Block
      /\ Within(local', Filled(type, m.what)) /\ OwnedOnce' /\ Old'
  BY <1>1, <1>2, LocalFilled
<1>5. Within(local', Freed(type))
  BY <1>3, <1>4 DEF Within
<1>6. BTypeOK'
  BY <1>1, <1>4 DEF BTypeOK
<1>7. FillInv' /\ RawInv' /\ NoBadFree'
  BY <1>1, <1>5 DEF FillInv, RawInv, NoBadFree
<1> QED BY <1>4, <1>6, <1>7

(* A callback that panics leaves new blocks that no struct knows. *)
LEMMA PanicsStep ==
    ASSUME MemInv, CallbackPanics
    PROVE  MemInv'
<1> USE DEF MemInv
<1>1. pcB = "app" /\ calls' = calls + 1 /\ calls \in Nat
      /\ UNCHANGED <<type, out, raw, local, pcB, rc, badFree>>
  BY DEF CallbackPanics, NextCall, BTypeOK
<1>2. PICK fields, full : LET made == Allocated(Fill(fields, full))
                          IN  heap' = heap \cup made /\ leaked' = leaked \cup made
  BY DEF CallbackPanics
<1> DEFINE made == Allocated(Fill(fields, full))
<1>3. made \subseteq Block /\ \A b \in made : b \notin heap /\ b.call < calls + 1
  BY <1>1, FillFacts
<1> HIDE DEF made
<1>4. heap' = heap \cup made /\ leaked' = leaked \cup made
  BY <1>2 DEF made
<1>5. BTypeOK'
  BY <1>1, <1>3, <1>4 DEF BTypeOK
<1>6. OwnedOnce'
  BY <1>1, <1>3, <1>4, OwnedDef, OwnedNext
<1>7. Old'
  BY <1>1, <1>3, <1>4, OldGrows DEF Old
<1>8. FillInv' /\ RawInv' /\ NoBadFree'
  BY <1>1 DEF FillInv, RawInv, NoBadFree
<1> QED BY <1>5, <1>6, <1>7, <1>8

LEMMA GetRecvStep ==
    ASSUME MemInv, GetRecv
    PROVE  MemInv'
<1> USE DEF MemInv
<1>1. pcB = "app" /\ Blocks(out) = {} /\ type = "reply" /\ calls' = calls + 1 /\ calls \in Nat
      /\ UNCHANGED <<type, out, raw, badFree, leaked>>
  BY DEF GetRecv, Reusable, NextCall, BTypeOK
<1>2. PICK m \in Messages :
         /\ m.what \in Carries(type)
         /\ local' = Fill(Filled("reply_ex", m.what), m.full)
         /\ heap' = heap \cup Allocated(local')
         /\ \/ m.what = "none" /\ pcB' = "free" /\ rc' = "error"
            \/ m.what = "sample" /\ pcB' = "move" /\ rc' = "ok"
            \/ m.what = "error" /\ pcB' = "error" /\ rc' = "ok"
  BY DEF GetRecv
<1>3. Filled("reply_ex", m.what) \subseteq Freed("reply_ex")
  BY <1>1, <1>2, FilledFreed DEF Types
<1>4. /\ local' \in [AllFields -> SUBSET Block] /\ heap' \subseteq Block
      /\ Within(local', Filled("reply_ex", m.what)) /\ OwnedOnce' /\ Old'
  BY <1>1, <1>2, LocalFilled
<1>5. Within(local', Freed("reply_ex"))
  BY <1>3, <1>4 DEF Within
<1>6. out = Empty
  <2>1. \A f \in AllFields : out[f] = {}
    BY <1>1, BlocksDef
  <2> QED BY <2>1 DEF BTypeOK, Empty
<1>7. pcB' \in {"free", "move", "error"} /\ rc' \in {"ok", "error"}
      /\ (pcB' \in {"move", "error"} => rc' = "ok") /\ (pcB' = "free" => rc' = "error")
  BY <1>2
<1>8. BTypeOK'
  BY <1>1, <1>4, <1>7 DEF BTypeOK
<1>9. FillInv'
  BY <1>1, <1>5, <1>6, <1>7 DEF FillInv
<1>10. RawInv' /\ NoBadFree'
  BY <1>1, <1>7 DEF RawInv, NoBadFree
<1> QED BY <1>4, <1>8, <1>9, <1>10

LEMMA GetFailsStep ==
    ASSUME MemInv, GetFails
    PROVE  MemInv'
<1> USE DEF MemInv
<1>1. type = "reply" /\ calls' = calls + 1 /\ calls \in Nat /\ rc' = "error" /\ pcB = "app"
      /\ UNCHANGED <<type, heap, out, raw, local, pcB, badFree, leaked>>
  BY DEF GetFails, Reusable, NextCall, BTypeOK
<1>2. BTypeOK'
  BY <1>1 DEF BTypeOK
<1>3. OwnedOnce'
  BY <1>1, OwnedDef, OwnedNext
<1>4. Old'
  BY <1>1, OldGrows DEF Old
<1>5. FillInv' /\ RawInv' /\ NoBadFree'
  BY <1>1 DEF FillInv, RawInv, NoBadFree
<1> QED BY <1>2, <1>3, <1>4, <1>5

(* A reply changes hands: the blocks move and none is shared. *)
LEMMA MoveSampleStep ==
    ASSUME MemInv, MoveSample
    PROVE  MemInv'
<1> USE DEF MemInv
<1>1. pcB = "move" /\ pcB' = "free" /\ raw' = FALSE /\ type = "reply" /\ out = Empty
      /\ UNCHANGED <<type, calls, heap, rc, badFree, leaked>>
      /\ Distinct(local) /\ heap = Blocks(local) \cup leaked
      /\ leaked \cap Blocks(local) = {} /\ Within(local, Freed("reply_ex"))
  BY EmptyFacts, OwnedDef DEF MoveSample, FillInv
<1>2. \A f \in AllFields : /\ out'[f] = IF f \in SampleFields THEN local[f] ELSE {}
                           /\ local'[f] = IF f \in SampleFields THEN {} ELSE local[f]
  BY DEF MoveSample
<1>3. out' \in [AllFields -> SUBSET Block] /\ local' \in [AllFields -> SUBSET Block]
  <2>1. \A f \in AllFields : local[f] \in SUBSET Block
    BY DEF BTypeOK
  <2> QED BY <2>1 DEF MoveSample
<1>4. BTypeOK'
  BY <1>1, <1>3 DEF BTypeOK
<1>5. heap' = Blocks(out') \cup Blocks(local') \cup leaked'
      /\ leaked' \cap (Blocks(out') \cup Blocks(local')) = {}
  BY <1>1, <1>2, BlocksDef
<1>6. Blocks(out') \cap Blocks(local') = {}
  BY <1>1, <1>2, BlocksDef DEF Distinct
<1>7. Distinct(out') /\ Distinct(local')
  BY <1>1, <1>2 DEF Distinct
<1>8. OwnedOnce'
  BY <1>5, <1>6, <1>7, OwnedNext
<1>9. Within(out', Freed("reply")) /\ Within(local', Freed("reply_ex"))
  BY <1>1, <1>2 DEF Within, Freed, SampleFields, ReplyFreed
<1>10. FillInv' /\ RawInv' /\ NoBadFree' /\ Old'
  BY <1>1, <1>9 DEF FillInv, RawInv, NoBadFree, Old
<1> QED BY <1>4, <1>8, <1>10

LEMMA MoveErrorStep ==
    ASSUME MemInv, MoveError
    PROVE  MemInv'
<1> USE DEF MemInv
<1>1. pcB = "error" /\ pcB' = "free" /\ raw' = FALSE /\ type = "reply" /\ out = Empty
      /\ UNCHANGED <<type, calls, heap, rc, badFree, leaked>>
      /\ Distinct(local) /\ heap = Blocks(local) \cup leaked
      /\ leaked \cap Blocks(local) = {} /\ Within(local, Freed("reply_ex"))
  BY EmptyFacts, OwnedDef DEF MoveError, FillInv
<1>f. "payload" \in AllFields /\ "error_payload" \in AllFields
  BY DEF AllFields, SampleExFields, ErrorFields
<1>2. \A f \in AllFields :
         /\ out'[f] = IF f = "payload" THEN local["error_payload"] ELSE {}
         /\ local'[f] = IF f = "error_payload" THEN {} ELSE local[f]
  BY <1>f DEF MoveError, Empty, BTypeOK
<1>3. out' \in [AllFields -> SUBSET Block] /\ local' \in [AllFields -> SUBSET Block]
  BY <1>f, EmptyFacts DEF MoveError, BTypeOK
<1>4. BTypeOK'
  BY <1>1, <1>3 DEF BTypeOK
<1>5. heap' = Blocks(out') \cup Blocks(local') \cup leaked'
      /\ leaked' \cap (Blocks(out') \cup Blocks(local')) = {}
  BY <1>1, <1>2, <1>f, BlocksDef
<1>6. Blocks(out') \cap Blocks(local') = {}
  BY <1>1, <1>2, <1>f, BlocksDef DEF Distinct
<1>7. Distinct(out') /\ Distinct(local')
  BY <1>1, <1>2 DEF Distinct
<1>8. OwnedOnce'
  BY <1>5, <1>6, <1>7, OwnedNext
<1>9. Within(out', Freed("reply")) /\ Within(local', Freed("reply_ex"))
  BY <1>1, <1>2 DEF Within, Freed, ReplyFreed
<1>10. FillInv' /\ RawInv' /\ NoBadFree' /\ Old'
  BY <1>1, <1>9 DEF FillInv, RawInv, NoBadFree, Old
<1> QED BY <1>4, <1>8, <1>10

(* The wrapper frees a struct of its own. *)
LEMMA LocalFreeStep ==
    ASSUME MemInv, CallbackFreed \/ GetFrees
    PROVE  MemInv'
<1> USE DEF MemInv
<1>1. pcB \in {"callback", "free"} /\ pcB' = "app" /\ local' = Empty /\ type \in Types
      /\ UNCHANGED <<type, calls, out, raw, rc, leaked>>
  BY DEF CallbackFreed, GetFrees, BTypeOK
<1>2. PICK t \in Types : FreeFields(local, Freed(t)) /\ Within(local, Freed(t))
  BY <1>1 DEF CallbackFreed, GetFrees, FillInv, Types
<1>3. heap' = heap \ Blocks(local) /\ NoBadFree'
  BY <1>2, FreeFacts, FreedFields, OwnedDef
<1>4. heap' = Blocks(out) \cup leaked
  BY <1>3, OwnedDef
<1>5. BTypeOK'
  <2>1. badFree' \in BOOLEAN
    BY <1>2 DEF FreeFields
  <2>2. heap' \subseteq Block
    BY <1>3 DEF BTypeOK
  <2> QED BY <1>1, <2>1, <2>2, EmptyFacts DEF BTypeOK
<1>6. OwnedOnce'
  BY <1>1, <1>4, OwnedDef, EmptyFacts, OwnedNext
<1>7. Old'
  BY <1>1, <1>3, OldFree
<1>8. FillInv' /\ RawInv'
  BY <1>1 DEF FillInv, RawInv
<1> QED BY <1>3, <1>5, <1>6, <1>7, <1>8

LEMMA MemStep ==
    ASSUME MemInv, [BNext]_bvars
    PROVE  MemInv'
<1>1. CASE UNCHANGED bvars
  <2>1. OwnedOnce'
    BY <1>1, OwnedDef, OwnedNext DEF MemInv, bvars
  <2> QED BY <1>1, <2>1 DEF MemInv, BTypeOK, Old, FillInv, RawInv, NoBadFree, bvars
<1> QED
  BY <1>1, RecvStep, AbortsStep, AppFreeStep, LentStep, PanicsStep, GetRecvStep, GetFailsStep, MoveSampleStep,
     MoveErrorStep, LocalFreeStep DEF BNext

(* The memory model keeps its types: every pointer is null or names a block.           *)
THEOREM MemoryTypes == BSpec => []BTypeOK
<1>1. MemInv => BTypeOK
  BY DEF MemInv
<1> QED BY <1>1, MemInit, MemStep, PTL DEF BSpec

(* No zgrpc_*_free, of the application or of the wrapper, frees a block twice, with a   *)
(* wrong length or through an unwritten pointer.                                      *)
THEOREM FreesAreGood == BSpec => []NoBadFree
<1>1. MemInv => NoBadFree
  BY DEF MemInv
<1> QED BY <1>1, MemInit, MemStep, PTL DEF BSpec

(* Every allocated block has one owner, on the paths that fail too: nothing leaks in a *)
(* call, a callback or the move of zgrpc_querier_get, but for what a callback's thread  *)
(* had made of a message when into_c_string panicked.                                  *)
THEOREM OneOwner == BSpec => []OwnedOnce
<1>1. MemInv => OwnedOnce
  BY DEF MemInv
<1> QED BY <1>1, MemInit, MemStep, PTL DEF BSpec
===============================================================================
