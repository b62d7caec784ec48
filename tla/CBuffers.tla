------------------------------- MODULE CBuffers -------------------------------
(***************************************************************************)
(* Who owns the memory behind the C wrapper's structs                      *)
(* (zenoh-grpc-c/src/lib.rs).  A receiving call fills a struct of the      *)
(* application with strings and byte arrays from the heap; the matching    *)
(* zgrpc_*_free gives them back.  A callback is lent a struct that the     *)
(* wrapper fills and frees itself, and zgrpc_querier_get moves part of a   *)
(* struct of its own into the application's.                               *)
(*                                                                         *)
(* A pointer field holds {} (null) or {block}.  A block is named by the    *)
(* call that allocated it, the field it was made for, and a length: in the *)
(* heap what was allocated, in a struct what its length field says, which  *)
(* is what it is freed with.  A pointer with a wrong length names no block.*)
(*                                                                         *)
(* A string with a NUL in it cannot be made a C string, and into_c_string  *)
(* panics.  In a call of the application that aborts the process; the      *)
(* thread that runs a callback catches it and goes on.                     *)
(***************************************************************************)
EXTENDS Naturals, Sequences

CONSTANT MaxCalls     \* bound: calls and callbacks

VARIABLES
    type,      \* the struct type that the application uses in this behaviour
    calls,     \* calls and callbacks so far
    heap,      \* the blocks that are allocated
    out,       \* the application's struct
    raw,       \* `out` has not been written since it was declared: wild pointers
    local,     \* the struct of a callback or of zgrpc_querier_get
    pcB,       \* the wrapper: "app" (in nobody's call), "callback", "move", "error",
               \* "free" or "aborted"
    rc,        \* what the last call on `out` returned: "none" before the first
    badFree,   \* history: memory was freed that is not allocated, or with a wrong length
    leaked     \* history: blocks made for a callback that panicked before it was called

bvars == <<type, calls, heap, out, raw, local, pcB, rc, badFree, leaked>>

--------------------------------------------------------------------------------
(* The structs: what is filled, and what is freed *)

\* fill_sample, fill_legacy_query, fill_sample_ex (with fill_source_info),
\* query_to_owned, and the error of fill_reply_ex.
SampleFields == {"key_expr", "payload"}
QueryFields == {"key_expr", "parameters", "payload"}
SampleExFields == {"key_expr", "payload", "encoding", "attachment", "timestamp", "source_id"}
QueryExFields == {"selector", "key_expr", "parameters", "payload", "encoding", "attachment"}
ErrorFields == {"error_payload", "error_encoding"}
AllFields == QueryExFields \cup SampleExFields \cup ErrorFields
Arrays == {"payload", "attachment", "error_payload"}

\* The order in which fill_sample_ex and query_to_owned make the fields of the structs
\* that are lent to a callback.
FillOrder(t) ==
    IF t = "event"
    THEN <<"payload", "attachment", "key_expr", "encoding", "timestamp", "source_id">>
    ELSE <<"selector", "key_expr", "parameters", "payload", "encoding", "attachment">>
MadeBefore(t, f) ==
    {FillOrder(t)[i] : i \in {j \in 1..6 : \E k \in (j + 1)..6 : FillOrder(t)[k] = f}}

\* zgrpc_sample_free, query_free, reply_free, sample_ex_free (with source_info_free),
\* query_ex_free, reply_error_free.
SampleFreed == {"key_expr", "payload"}
QueryFreed == {"key_expr", "parameters", "payload"}
ReplyFreed == {"key_expr", "payload"}
SampleExFreed_NoInfo == {"key_expr", "payload", "encoding", "attachment", "timestamp"}
SampleExFreed == {"key_expr", "payload", "encoding", "attachment", "timestamp", "source_id"}
QueryExFreed == {"selector", "key_expr", "parameters", "payload", "encoding", "attachment"}
ErrorFreed == {"error_payload", "error_encoding"}

Types == {"sample", "query", "reply", "event", "query_ex", "reply_ex"}

\* A message: what it carries, and which of its strings and arrays are not empty.
Messages == [what : {"sample", "query", "error", "none"}, full : SUBSET AllFields]

\* What a receiving call makes of a message: the fields that it fills.
Filled(t, what) ==
    CASE t = "sample" /\ what = "sample" -> SampleFields
      [] t = "query" /\ what = "query" -> QueryFields
      [] t = "query_ex" /\ what = "query" -> QueryExFields
      [] t \in {"event", "reply_ex"} /\ what = "sample" -> SampleExFields
      [] t = "reply_ex" /\ what = "error" -> ErrorFields
      [] OTHER -> {}

Freed(t) ==
    CASE t = "sample" -> SampleFreed
      [] t = "query" -> QueryFreed
      [] t = "reply" -> ReplyFreed
      [] t = "event" -> SampleExFreed
      [] t = "query_ex" -> QueryExFreed
      [] t = "reply_ex" -> SampleExFreed \cup ErrorFreed

\* The messages that a type's queue or stream carries; a subscriber event may come
\* without its sample, a reply without its result.
Carries(t) ==
    CASE t \in {"sample", "event"} -> {"sample", "none"}
      [] t \in {"query", "query_ex"} -> {"query"}
      [] t \in {"reply", "reply_ex"} -> {"sample", "error", "none"}

--------------------------------------------------------------------------------
(* The heap *)

Block == [call : Nat, field : AllFields, len : 0..1]
Empty == [f \in AllFields |-> {}]
Blocks(s) == UNION {s[f] : f \in AllFields}

\* into_c_string and into_c_bytes: null for what is empty.
Fill_Capacity(fields, full) ==
    [f \in AllFields |-> IF f \in fields \cap full
                         THEN {[call |-> calls, field |-> f, len |-> 2]} ELSE {}]
Fill(fields, full) ==
    [f \in AllFields |-> IF f \in fields \cap full
                         THEN {[call |-> calls, field |-> f, len |-> 1]} ELSE {}]

\* What that allocates: into_c_string boxes its string, and into_c_bytes is given a
\* fresh copy (clone, to_vec), whose capacity is its length.
CapacityOfCopy(len) == len
Allocated(s) == {[b EXCEPT !.len = CapacityOfCopy(@)] : b \in Blocks(s)}

\* zgrpc_string_free and zgrpc_bytes_free on the fields of a struct, one by one.
FreeFields(s, fields) ==
    /\ heap' = heap \ UNION {s[f] : f \in fields}
    /\ badFree' = (badFree \/ (\E f \in fields : ~(s[f] \subseteq heap))
                           \/ (\E f, g \in fields : f # g /\ s[f] \cap s[g] # {}))

BInit ==
    /\ type \in Types /\ calls = 0 /\ heap = {} /\ out = Empty /\ raw = TRUE
    /\ local = Empty /\ pcB = "app" /\ rc = "none" /\ badFree = FALSE /\ leaked = {}

NextCall == calls < MaxCalls /\ calls' = calls + 1

\* The application frees what it was given before it uses the struct again.
Reusable == pcB = "app" /\ Blocks(out) = {}

--------------------------------------------------------------------------------
(* The application's calls *)

\* zgrpc_subscriber_recv, recv_event, queryable_recv, recv_ex, reply_stream_recv and
\* their try_ forms: clear_*, and then fill_* or an error.
RecvFails ==
    /\ Reusable /\ NextCall /\ type # "reply"
    /\ out' = Empty /\ raw' = FALSE /\ rc' = "error"
    /\ UNCHANGED <<type, heap, local, pcB, badFree, leaked>>

Recv ==
    /\ Reusable /\ NextCall /\ type # "reply"
    /\ \E m \in Messages :
          /\ m.what \in Carries(type) /\ m.full \subseteq Filled(type, m.what)
          /\ out' = Fill(Filled(type, m.what), m.full)
          /\ heap' = heap \cup Allocated(out')
          /\ rc' = IF m.what = "none" THEN "error" ELSE "ok"
    /\ raw' = FALSE
    /\ UNCHANGED <<type, local, pcB, badFree, leaked>>

\* A call of the application's, zgrpc_querier_get included, receives such a string:
\* a panic does not leave an extern "C" function.
RecvAborts ==
    /\ Reusable /\ NextCall /\ pcB' = "aborted"
    /\ UNCHANGED <<type, heap, out, raw, local, rc, badFree, leaked>>

\* zgrpc_*_free, after any call on the struct; after a failed zgrpc_querier_get, which
\* may leave the struct as it was, not.
AppFree ==
    /\ pcB = "app" /\ rc # "none" /\ (type = "reply" => rc = "ok")
    /\ \/ raw /\ badFree' = TRUE /\ UNCHANGED <<heap, out, raw>>
       \/ ~raw /\ FreeFields(out, Freed(type)) /\ out' = Empty /\ UNCHANGED raw
    /\ UNCHANGED <<type, calls, local, pcB, rc, leaked>>

--------------------------------------------------------------------------------
(* Callbacks *)

\* The closures of declare_subscriber_with_callback and declare_queryable_with_callback.
CallbackLent ==
    /\ pcB = "app" /\ NextCall /\ type \in {"event", "query_ex"}
    /\ \E m \in Messages :
          /\ m.what \in Carries(type) /\ m.full \subseteq Filled(type, m.what)
          /\ local' = Fill(Filled(type, m.what), m.full)
          /\ heap' = heap \cup Allocated(local')
    /\ pcB' = "callback"
    /\ UNCHANGED <<type, out, raw, rc, badFree, leaked>>

\* fill_sample_ex or query_to_owned panics at a string with a NUL: the client's
\* catch_unwind goes on to the next event, and nobody knows of the blocks any more.
CallbackPanics ==
    /\ pcB = "app" /\ NextCall /\ type \in {"event", "query_ex"}
    /\ \E m \in Messages :
          /\ m.what \in Carries(type) /\ m.full \subseteq Filled(type, m.what)
          /\ \E f \in m.full \ Arrays :
                LET made == Allocated(Fill(MadeBefore(type, f), m.full))
                IN  heap' = heap \cup made /\ leaked' = leaked \cup made
    /\ UNCHANGED <<type, out, raw, local, pcB, rc, badFree>>

CallbackFreed ==
    /\ pcB = "callback" /\ pcB' = "app"
    /\ FreeFields(local, Freed(type)) /\ local' = Empty
    /\ UNCHANGED <<type, calls, out, raw, rc, leaked>>

--------------------------------------------------------------------------------
(* zgrpc_querier_get *)

\* No stream, or the stream has ended: `out` is not touched.
GetFails ==
    /\ Reusable /\ NextCall /\ type = "reply"
    /\ rc' = "error"
    /\ UNCHANGED <<type, heap, out, raw, local, pcB, badFree, leaked>>

\* One reply is received into reply_ex, and the stream is dropped.
GetRecv ==
    /\ Reusable /\ NextCall /\ type = "reply"
    /\ \E m \in Messages :
          /\ m.what \in Carries(type) /\ m.full \subseteq Filled("reply_ex", m.what)
          /\ local' = Fill(Filled("reply_ex", m.what), m.full)
          /\ heap' = heap \cup Allocated(local')
          /\ \/ m.what = "none" /\ pcB' = "free" /\ rc' = "error"
             \/ m.what = "sample" /\ pcB' = "move" /\ rc' = "ok"
             \/ m.what = "error" /\ pcB' = "error" /\ rc' = "ok"
    /\ UNCHANGED <<type, out, raw, badFree, leaked>>

\* The key and the payload of a sample, or the payload of an error, become the
\* application's, and reply_ex forgets them.
MoveSample_Shared ==
    /\ pcB = "move" /\ pcB' = "free" /\ raw' = FALSE
    /\ out' = [f \in AllFields |-> IF f \in SampleFields THEN local[f] ELSE {}]
    /\ UNCHANGED <<type, calls, heap, local, rc, badFree, leaked>>
MoveSample ==
    /\ pcB = "move" /\ pcB' = "free" /\ raw' = FALSE
    /\ out' = [f \in AllFields |-> IF f \in SampleFields THEN local[f] ELSE {}]
    /\ local' = [f \in AllFields |-> IF f \in SampleFields THEN {} ELSE local[f]]
    /\ UNCHANGED <<type, calls, heap, rc, badFree, leaked>>

MoveError ==
    /\ pcB = "error" /\ pcB' = "free" /\ raw' = FALSE
    /\ out' = [Empty EXCEPT !["payload"] = local["error_payload"]]
    /\ local' = [local EXCEPT !["error_payload"] = {}]
    /\ UNCHANGED <<type, calls, heap, rc, badFree, leaked>>

\* zgrpc_reply_ex_free, on every path.
GetFrees ==
    /\ pcB = "free" /\ pcB' = "app"
    /\ FreeFields(local, Freed("reply_ex")) /\ local' = Empty
    /\ UNCHANGED <<type, calls, out, raw, rc, leaked>>

--------------------------------------------------------------------------------
BNext ==
    \/ Recv \/ RecvFails \/ RecvAborts \/ AppFree
    \/ CallbackLent \/ CallbackPanics \/ CallbackFreed
    \/ GetFails \/ GetRecv \/ MoveSample \/ MoveError \/ GetFrees

BSpec == BInit /\ [][BNext]_bvars

--------------------------------------------------------------------------------
(* Properties *)

BTypeOK ==
    /\ type \in Types /\ calls \in Nat /\ heap \subseteq Block /\ leaked \subseteq Block
    /\ out \in [AllFields -> SUBSET Block] /\ local \in [AllFields -> SUBSET Block]
    /\ raw \in BOOLEAN /\ badFree \in BOOLEAN
    /\ pcB \in {"app", "callback", "move", "error", "free", "aborted"}
    /\ rc \in {"none", "ok", "error"}

\* Nothing is freed twice, freed with a length that is not the allocation's, or freed
\* through a pointer that was never written, whichever calls fail or panic and however
\* often a struct is freed.
NoBadFree == ~badFree

\* Every allocated block is reachable through exactly one field of one struct, unless
\* it was made for a callback that panicked before it was called: nothing else leaks,
\* no free reaches what such a panic left behind, and no two pointers share a block, in
\* particular when zgrpc_querier_get has moved a reply into the application's struct.
OwnedOnce ==
    /\ heap = Blocks(out) \cup Blocks(local) \cup leaked
    /\ Blocks(out) \cap Blocks(local) = {}
    /\ leaked \cap (Blocks(out) \cup Blocks(local)) = {}
    /\ \A f, g \in AllFields :
          f # g => out[f] \cap out[g] = {} /\ local[f] \cap local[g] = {}

\* Refuted by the code, and stated here to be tried: what the wrapper allocates is
\* given back.  A NUL in a key, an encoding or a selector that another zenoh
\* application chose makes the callback's thread lose what it had made of the message.
NothingLeaks == leaked = {}
================================================================================
