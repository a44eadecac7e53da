----------------------------- MODULE StartGuard -----------------------------
(* The watchdog's start guard: ensure_running, invoked by cron, takes a lock
   file before it spawns the server, reclaims a lock whose owner is gone, and
   gives its own lock back.  Every file-system call is a step of its own, so
   the calls of several invocations interleave freely, and an invocation may be
   killed between any two of them.

   A lock file is an inode number.  As in the file system, the number of a file
   that is neither linked nor open may be given to the next file created.  The
   contents of a lock are empty, the process that wrote them, or Gone: a process
   id that no longer exists.  A process id is not reused while it matters. *)
EXTENDS Naturals, FiniteSets

CONSTANTS
    Watchdogs,    \* concurrent ensure_running invocations
    Inodes,       \* inode numbers the file system hands out
    NoInode, Empty, Gone,
    MaxKills      \* bound: invocations and servers killed from outside

VARIABLES
    lock,       \* what the lock path names
    contents,   \* contents[i]: the bytes of the file
    dog,        \* each invocation: where it is, its own file, the file it observed
    litter,     \* files left at a quarantine name
    serving,    \* the server: "down", "starting" or "up" (PID file and listener)
    kills       \* kills so far

guardVars == <<lock, contents, dog, litter, serving, kills>>

IdleDog == [at |-> "idle", own |-> NoInode, seen |-> NoInode, aside |-> NoInode, tries |-> 0]

GuardInit ==
    /\ lock = NoInode
    /\ contents = [i \in Inodes |-> Empty]
    /\ dog = [w \in Watchdogs |-> IdleDog]
    /\ litter = {}
    /\ serving = "down"
    /\ kills = 0

\* An inode number the file system may hand out.
FreeInode(i) ==
    /\ i # lock
    /\ \A w \in Watchdogs :
           /\ i \notin {dog[w].own, dog[w].aside}
           /\ dog[w].at = "opened" => i # dog[w].seen
           /\ i \in litter => i # dog[w].seen

DogAt(w, at) == dog' = [dog EXCEPT ![w].at = at]

\* The process ends: its handles close and its id exists no more.
Ended(w) ==
    /\ dog' = [dog EXCEPT ![w] = IdleDog]
    /\ contents' = [i \in Inodes |-> IF contents[i] = w THEN Gone ELSE contents[i]]
    /\ litter' = (litter \cup {dog[w].aside}) \ {NoInode}

\* ensure_running finds no live server, and asks for the guard.
Invoke(w) ==
    /\ dog[w].at = "idle" /\ serving # "up"
    /\ dog' = [dog EXCEPT ![w] = [IdleDog EXCEPT !.at = "create"]]
    /\ UNCHANGED <<lock, contents, litter, serving, kills>>

\* create_new: the path did not exist, and now names a file of this process.
Create(w) ==
    /\ dog[w].at = "create" /\ dog[w].tries < 2
    /\ lock = NoInode
    /\ \E i \in Inodes :
           /\ FreeInode(i)
           /\ lock' = i
           /\ contents' = [contents EXCEPT ![i] = Empty]
           /\ litter' = litter \ {i}
           /\ dog' = [dog EXCEPT ![w].at = "created", ![w].own = i, ![w].tries = @ + 1]
    /\ UNCHANGED <<serving, kills>>

\* create_new finds the path taken and observe_lock_owner opens it.
OpenExisting(w) ==
    /\ dog[w].at = "create" /\ dog[w].tries < 2
    /\ lock # NoInode
    /\ dog' = [dog EXCEPT ![w].at = "opened", ![w].seen = lock, ![w].tries = @ + 1]
    /\ UNCHANGED <<lock, contents, litter, serving, kills>>

\* Defect: an empty lock counts as held.
ReadOwnerEmptyHeld(w) ==
    /\ dog[w].at = "opened"
    /\ IF contents[dog[w].seen] = Gone THEN DogAt(w, "stale") /\ UNCHANGED <<contents, litter>>
                                        ELSE Ended(w)
    /\ UNCHANGED <<lock, serving, kills>>

\* observe_lock_owner: an owner that exists holds the lock; an empty lock and a
\* lock whose owner is gone are reclaimed.
ReadOwner(w) ==
    /\ dog[w].at = "opened"
    /\ CASE contents[dog[w].seen] = Empty -> DogAt(w, "ownerless") /\ UNCHANGED <<contents, litter>>
         [] contents[dog[w].seen] = Gone  -> DogAt(w, "stale") /\ UNCHANGED <<contents, litter>>
         [] OTHER -> Ended(w)
    /\ UNCHANGED <<lock, serving, kills>>

\* Two tries and the lock still held.
GiveUp(w) ==
    /\ dog[w].at = "create" /\ dog[w].tries = 2
    /\ Ended(w)
    /\ UNCHANGED <<lock, serving, kills>>

\* publish_lock_owner writes the process id into the open file ...
PublishOwner(w) ==
    /\ dog[w].at = "created"
    /\ contents' = [contents EXCEPT ![dog[w].own] = w]
    /\ DogAt(w, "published")
    /\ UNCHANGED <<lock, litter, serving, kills>>

\* ... or cannot, and discard_published_lock looks whether the path is still its own.
PublishFails(w) ==
    /\ dog[w].at = "created"
    /\ IF lock = dog[w].own THEN DogAt(w, "remove") /\ UNCHANGED <<contents, litter>>
                            ELSE Ended(w)
    /\ UNCHANGED <<lock, serving, kills>>

\* path_names_published_file: the path still names this process's file.
ConfirmOwner(w) ==
    /\ dog[w].at = "published"
    /\ IF lock = dog[w].own THEN DogAt(w, "holding") /\ UNCHANGED <<contents, litter>>
                            ELSE Ended(w)
    /\ UNCHANGED <<lock, serving, kills>>

\* move_lock_aside: an atomic rename of whatever the path names by now.
MoveAside(w) ==
    /\ dog[w].at \in {"ownerless", "stale"}
    /\ IF lock = NoInode
       THEN DogAt(w, "create") /\ UNCHANGED lock
       ELSE /\ dog' = [dog EXCEPT ![w].aside = lock, ![w].at =
                  IF @ = "stale" THEN "stale_aside" ELSE "ownerless_aside"]
            /\ lock' = NoInode
    /\ UNCHANGED <<contents, litter, serving, kills>>

\* The moved file is the observed one, and still names nobody who is alive: it
\* is removed and the path tried again.
DiscardAside(w) ==
    /\ \/ dog[w].at = "stale_aside"
       \/ dog[w].at = "ownerless_aside" /\ contents[dog[w].aside] = Empty
    /\ dog[w].aside = dog[w].seen
    /\ dog' = [dog EXCEPT ![w].at = "create", ![w].aside = NoInode, ![w].seen = NoInode]
    /\ UNCHANGED <<lock, contents, litter, serving, kills>>

\* The moved file is another one, or has been published meanwhile: restore_lock
\* links it back unless the path is taken again, and the guard is not ours.
RestoreAside(w) ==
    /\ \/ dog[w].at \in {"stale_aside", "ownerless_aside"} /\ dog[w].aside # dog[w].seen
       \/ dog[w].at = "ownerless_aside" /\ contents[dog[w].aside] # Empty
    /\ lock' = IF lock = NoInode THEN dog[w].aside ELSE lock
    /\ dog' = [dog EXCEPT ![w] = IdleDog]
    /\ contents' = [i \in Inodes |-> IF contents[i] = w THEN Gone ELSE contents[i]]
    /\ litter' = IF lock = NoInode THEN litter ELSE litter \cup {dog[w].aside}
    /\ UNCHANGED <<serving, kills>>

\* The spawn section: PID file and listener are looked at again, the server is
\* spawned, and its start is awaited until it shows or the deadline passes.
SpawnServer(w) ==
    /\ dog[w].at = "holding"
    /\ serving' = IF serving = "up" THEN "up" ELSE "starting"
    /\ DogAt(w, "waiting")
    /\ UNCHANGED <<lock, contents, litter, kills>>

\* Drop for StartGuard: the contents and the identity at the path are its own.
DropChecks(w) ==
    /\ dog[w].at = "waiting"
    /\ IF lock = dog[w].own /\ contents[lock] = w
       THEN DogAt(w, "remove") /\ UNCHANGED <<contents, litter>>
       ELSE Ended(w)
    /\ UNCHANGED <<lock, serving, kills>>

\* remove_file, by name; the process is done.
RemoveLock(w) ==
    /\ dog[w].at = "remove"
    /\ lock' = NoInode
    /\ Ended(w)
    /\ UNCHANGED <<serving, kills>>

\* The invocation is killed.
Kill(w) ==
    /\ dog[w].at # "idle" /\ kills < MaxKills
    /\ kills' = kills + 1
    /\ Ended(w)
    /\ UNCHANGED <<lock, serving>>

\* The spawned server comes up, or a running one ends.
ServerUp ==
    /\ serving = "starting" /\ serving' = "up"
    /\ UNCHANGED <<lock, contents, dog, litter, kills>>

ServerEnds ==
    /\ serving # "down" /\ kills < MaxKills
    /\ serving' = "down" /\ kills' = kills + 1
    /\ UNCHANGED <<lock, contents, dog, litter>>

GuardStep(w) ==
    \/ Create(w) \/ OpenExisting(w) \/ ReadOwner(w) \/ GiveUp(w)
    \/ PublishOwner(w) \/ PublishFails(w) \/ ConfirmOwner(w)
    \/ MoveAside(w) \/ DiscardAside(w) \/ RestoreAside(w)
    \/ SpawnServer(w) \/ DropChecks(w) \/ RemoveLock(w)

GuardNext ==
    \/ \E w \in Watchdogs : Invoke(w) \/ GuardStep(w) \/ Kill(w)
    \/ ServerUp \/ ServerEnds

\* An invoked process runs; a spawned server starts; writing a process id does
\* not fail for ever.
GuardFairness ==
    /\ \A w \in Watchdogs : WF_guardVars(GuardStep(w)) /\ SF_guardVars(PublishOwner(w))
    /\ WF_guardVars(ServerUp)

GuardSpec == GuardInit /\ [][GuardNext]_guardVars /\ GuardFairness

-----------------------------------------------------------------------------
(* Properties.                                                             *)

\* "two cron invocations cannot both enter the spawn section": the guard is
\* held by one process at a time.
GuardIsExclusive ==
    \A v, w \in Watchdogs :
        dog[v].at \in {"holding", "waiting"} /\ dog[w].at \in {"holding", "waiting"} => v = w

\* Whatever invocation was killed between whichever two calls, and whatever
\* lock file it left (empty, named, or moved aside), the watchdog brings the
\* server back if cron keeps invoking it and invocations no longer overlap: no
\* lock outlives its owner for good.  (Overlapping ones may take each other's
\* empty locks for ever.)
ServerComesBack ==
    /\ []<>(\E w \in Watchdogs : dog[w].at # "idle")
    /\ <>[](Cardinality({w \in Watchdogs : dog[w].at # "idle"}) <= 1)
    => []<>(serving = "up")
=============================================================================
