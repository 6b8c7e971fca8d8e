------------------------------- MODULE UserNs -------------------------------
(***************************************************************************)
(* Starting a container in new namespaces, code/namespace/test/ns_utsnts.c *)
(* The parent clones a child, writes its uid and gid maps and tells it to  *)
(* go on by closing the write end of a pipe; the child closes its own copy *)
(* of the write end, waits for the end of file, sets itself up and execs.  *)
(* pipe, clone and the map writes may fail and none of them is checked;    *)
(* the parent may be killed at any moment.                                 *)
(*                                                                         *)
(* code/namespace/test/ns.c is the same without user namespace: no pipe,   *)
(* no maps, and the child sets itself up at once.                          *)
(***************************************************************************)
EXTENDS Naturals

VARIABLES
    plain,     \* the program is ns.c
    ppc,       \* the parent's next statement
    cpc,       \* the child's next statement
    pipe,      \* "none", "ok" or "failed"
    writers,   \* processes that hold the write end of the pipe
    uid_map, gid_map,   \* "none", "set" or "failed"
    killed,    \* history: the parent was killed
    hostname   \* the child's hostname has been set

vars == <<plain, ppc, cpc, pipe, writers, uid_map, gid_map, killed, hostname>>

MapStates == {"none", "set", "failed"}
Past == {"hostname", "mount", "exec", "shell", "exited"}   \* past the read

(* Shapes of the state.                                                    *)
TypeOK ==
    /\ plain \in BOOLEAN
    /\ ppc \in {"pipe", "clone", "uid", "gid", "close", "wait", "done"}
    /\ cpc \in {"none", "close", "read"} \cup Past
    /\ pipe \in {"none", "ok", "failed"} /\ writers \subseteq {"parent", "child"}
    /\ uid_map \in MapStates /\ gid_map \in MapStates
    /\ killed \in BOOLEAN /\ hostname \in BOOLEAN

Init ==
    /\ plain \in BOOLEAN /\ ppc = IF plain THEN "clone" ELSE "pipe"
    /\ cpc = "none" /\ pipe = "none" /\ writers = {}
    /\ uid_map = "none" /\ gid_map = "none" /\ killed = FALSE /\ hostname = FALSE

parent == <<ppc, uid_map, gid_map, killed>>

---------------------------------------------------------------------------
(* main. When pipe fails, pipefd stays {0, 0}: both processes then close   *)
(* and read descriptor 0.                                                  *)
Pipe ==
    /\ ppc = "pipe" /\ ppc' = "clone"
    /\ \/ pipe' = "ok" /\ writers' = {"parent"}
       \/ pipe' = "failed" /\ UNCHANGED writers
    /\ UNCHANGED <<cpc, uid_map, gid_map, killed, hostname>>

(* The child gets a copy of the parent's descriptors. A failed clone       *)
(* leaves container_pid = -1 and the parent goes on.                       *)
Clone ==
    /\ ~plain /\ ppc = "clone" /\ ppc' = "uid"
    /\ \/ cpc' = "close" /\ writers' = writers \cup (IF pipe = "ok" THEN {"child"} ELSE {})
       \/ UNCHANGED <<cpc, writers>>
    /\ UNCHANGED <<pipe, uid_map, gid_map, killed, hostname>>

(* main of ns.c: the child begins with its hostname, and the parent waits. *)
NsClone ==
    /\ plain /\ ppc = "clone" /\ ppc' = "wait"
    /\ cpc' = "hostname" \/ UNCHANGED cpc
    /\ UNCHANGED <<pipe, writers, uid_map, gid_map, killed, hostname>>

(* set_map: the file may not open or take the line; there is none without  *)
(* a child.                                                                *)
MapResult == IF cpc \in {"none", "exited"} THEN {"failed"} ELSE {"set", "failed"}

(* Bug: the parent notifies before it writes the gid map.                  *)
BugSetUidMap ==
    /\ ppc = "uid" /\ ppc' = "gid" /\ uid_map' \in MapResult
    /\ writers' = writers \ {"parent"}
    /\ UNCHANGED <<cpc, pipe, gid_map, killed, hostname>>

SetUidMap ==
    /\ ppc = "uid" /\ ppc' = "gid" /\ uid_map' \in MapResult
    /\ UNCHANGED <<cpc, pipe, writers, gid_map, killed, hostname>>

SetGidMap ==
    /\ ppc = "gid" /\ ppc' = "close" /\ gid_map' \in MapResult
    /\ UNCHANGED <<cpc, pipe, writers, uid_map, killed, hostname>>

ClosePipe ==
    /\ ppc = "close" /\ ppc' = "wait" /\ writers' = writers \ {"parent"}
    /\ UNCHANGED <<cpc, pipe, uid_map, gid_map, killed, hostname>>

(* waitpid returns when the child has ended, at once if there is none.     *)
WaitPid ==
    /\ ppc = "wait" /\ cpc \in {"none", "exited"} /\ ppc' = "done"
    /\ UNCHANGED <<cpc, pipe, writers, uid_map, gid_map, killed, hostname>>

(* The kernel closes what a killed parent had open.                        *)
KillParent ==
    /\ ppc # "done" /\ ppc' = "done" /\ killed' = TRUE
    /\ writers' = writers \ {"parent"}
    /\ UNCHANGED <<cpc, pipe, uid_map, gid_map, hostname>>

---------------------------------------------------------------------------
(* Bug: the child keeps its copy of the write end.                         *)
BugChildClose ==
    /\ cpc = "close" /\ cpc' = "read"
    /\ UNCHANGED <<parent, pipe, writers, hostname>>

(* container_main closes its copy of the write end ...                     *)
ChildClose ==
    /\ cpc = "close" /\ cpc' = "read" /\ writers' = writers \ {"child"}
    /\ UNCHANGED <<parent, pipe, hostname>>

(* ... and reads: nobody writes, so read returns when no write end is      *)
(* open; without a pipe it fails at once on the descriptor just closed.    *)
ChildRead ==
    /\ cpc = "read" /\ cpc' = "hostname"
    /\ pipe = "ok" => writers = {}
    /\ UNCHANGED <<parent, pipe, writers, hostname>>

SetHostname ==
    /\ cpc = "hostname" /\ cpc' = "mount" /\ hostname' = TRUE
    /\ UNCHANGED <<parent, pipe, writers>>

Mount ==
    /\ cpc = "mount" /\ cpc' = "exec"
    /\ UNCHANGED <<parent, pipe, writers, hostname>>

(* execv, or the message and return 1.                                     *)
Exec ==
    /\ cpc = "exec" /\ cpc' \in {"shell", "exited"}
    /\ UNCHANGED <<parent, pipe, writers, hostname>>

ShellExits ==
    /\ cpc = "shell" /\ cpc' = "exited"
    /\ UNCHANGED <<parent, pipe, writers, hostname>>

ParentStep ==
    \/ Pipe \/ Clone \/ NsClone \/ SetUidMap \/ SetGidMap \/ ClosePipe \/ WaitPid

ChildStep == ChildClose \/ ChildRead \/ SetHostname \/ Mount \/ Exec

Next == (ParentStep \/ KillParent \/ ChildStep \/ ShellExits) /\ UNCHANGED plain

(* Both processes are scheduled; when the shell ends is up to its user.    *)
Fairness ==
    /\ WF_vars(ParentStep /\ UNCHANGED plain)
    /\ WF_vars(ChildStep /\ UNCHANGED plain)

Spec == Init /\ [][Next]_vars
FairSpec == Spec /\ Fairness

---------------------------------------------------------------------------
(* "wait for the parent's notification before going on" (line 53): the     *)
(* child sets its hostname, mounts and execs only after both map writes    *)
(* were made, unless the parent was killed before it could make them or    *)
(* there was no pipe to wait on (line 77, unchecked).                      *)
MapsBeforeContainer ==
    ~plain /\ cpc \in Past =>
        \/ uid_map # "none" /\ gid_map # "none"
        \/ killed \/ pipe = "failed"

(* Nobody waits on anybody for ever: a child that was cloned gets past its *)
(* read, even when the parent dies at the worst moment.                    *)
ChildProceeds == cpc = "close" ~> cpc \in Past
=============================================================================
