----------------------------- MODULE BlockStore -----------------------------
(***************************************************************************)
(* What a disk promises, apart from how it is driven: while it is plugged  *)
(* in, requests wait in order; each is carried out from its first sector   *)
(* to its last, some sectors at a time; a write leaves its value in        *)
(* exactly its sectors, a read delivers what they hold, and nothing else   *)
(* changes a sector. A request is [op, pos, len, val].                     *)
(***************************************************************************)
EXTENDS Integers, Sequences

VARIABLES
    plugged,   \* the disk can be used
    content,   \* the value in each sector
    todo,      \* requests that are not finished; the first may be in part
    answer     \* what the last step of a read delivered

storeVars == <<plugged, content, todo, answer>>

StoreInit == plugged = FALSE /\ content = <<>> /\ todo = <<>> /\ answer = <<>>

(* The disk appears with unknown contents, and disappears when no request  *)
(* is left.                                                                *)
Plug ==
    /\ ~plugged /\ plugged' = TRUE
    /\ UNCHANGED <<todo, answer>>

Unplug ==
    /\ plugged /\ todo = <<>> /\ plugged' = FALSE /\ content' = <<>>
    /\ UNCHANGED <<todo, answer>>

(* A request for sectors of the disk is queued.                            *)
Submit ==
    /\ plugged
    /\ Len(todo') = Len(todo) + 1 /\ SubSeq(todo', 1, Len(todo)) = todo
    /\ LET r == todo'[Len(todo')]
       IN  r.len > 0 /\ r.pos..(r.pos + r.len - 1) \subseteq DOMAIN content
    /\ UNCHANGED <<plugged, content, answer>>

(* The first n sectors of the oldest request.                              *)
Serve(n) ==
    /\ plugged /\ todo # <<>>
    /\ LET r == Head(todo)
           sectors == r.pos..(r.pos + n - 1)
       IN  /\ n \in 1..r.len
           /\ \/ /\ r.op = "write"
                 /\ content' = [s \in DOMAIN content |->
                                   IF s \in sectors THEN r.val ELSE content[s]]
                 /\ UNCHANGED answer
              \/ /\ r.op = "read"
                 /\ answer' = [k \in 1..n |-> content[r.pos + k - 1]]
                 /\ UNCHANGED content
           /\ todo' = IF n = r.len THEN Tail(todo)
                      ELSE <<[r EXCEPT !.pos = @ + n, !.len = @ - n]>> \o Tail(todo)
    /\ UNCHANGED plugged

(* The answer has been taken.                                              *)
Forget == answer' = <<>> /\ UNCHANGED <<plugged, content, todo>>

StoreNext ==
    \/ Plug \/ Unplug \/ Submit \/ Forget
    \/ todo # <<>> /\ \E n \in 1..Head(todo).len : Serve(n)

StoreSpec == StoreInit /\ [][StoreNext]_storeVars
=============================================================================
