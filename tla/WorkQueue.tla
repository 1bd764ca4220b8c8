----------------------------- MODULE WorkQueue -----------------------------
(***************************************************************************)
(* What the repository dispatcher of flagstate (util/repodispatcher.go)    *)
(* promises to its callers, without its maps, its reference count and its  *)
(* condition variables:                                                    *)
(*   - a request for a repository stays in the queue until work on that    *)
(*     repository starts after the request was made;                       *)
(*   - a repository is worked on by at most one worker at a time;          *)
(*   - an urgent request is never overtaken by a background one;           *)
(*   - while the owner of the exclusive section is inside it, nobody works *)
(*     on any repository.                                                  *)
(* RepoDispatcher refines this specification; the models of the fetcher    *)
(* are composed with it instead of with the detailed dispatcher.           *)
(***************************************************************************)
CONSTANT Repos

VARIABLES
  urgent,      \* repositories with a high priority request not yet started
  background,  \* repositories with only a low priority request not yet started
  busy,        \* repositories being worked on
  exclusive    \* TRUE inside the exclusive section

queueVars == <<urgent, background, busy, exclusive>>

QueueTypeOK ==
  /\ urgent \subseteq Repos
  /\ background \subseteq Repos
  /\ busy \subseteq Repos
  /\ exclusive \in BOOLEAN

QueueInit ==
  /\ urgent = {}
  /\ background = {}
  /\ busy = {}
  /\ exclusive = FALSE

-----------------------------------------------------------------------------
(* A low priority request never demotes an urgent one; an urgent request   *)
(* promotes a background one.  A request for a busy repository is kept.    *)
RequestUrgent(r) ==
  /\ urgent' = urgent \cup {r}
  /\ background' = background \ {r}
  /\ UNCHANGED <<busy, exclusive>>

RequestBackground(r) ==
  /\ background' = background \cup ({r} \ urgent)
  /\ UNCHANGED <<urgent, busy, exclusive>>

(* Work starts on an idle repository, urgent ones first. *)
Start(r) ==
  /\ ~exclusive
  /\ r \notin busy
  /\ \/ r \in urgent
     \/ r \in background /\ urgent \subseteq busy
  /\ busy' = busy \cup {r}
  /\ urgent' = urgent \ {r}
  /\ background' = background \ {r}
  /\ UNCHANGED exclusive

Finish(r) ==
  /\ r \in busy
  /\ busy' = busy \ {r}
  /\ UNCHANGED <<urgent, background, exclusive>>

Enter ==
  /\ ~exclusive
  /\ busy = {}
  /\ exclusive' = TRUE
  /\ UNCHANGED <<urgent, background, busy>>

Leave ==
  /\ exclusive
  /\ exclusive' = FALSE
  /\ UNCHANGED <<urgent, background, busy>>

QueueNext ==
  \/ \E r \in Repos :
       \/ RequestUrgent(r)
       \/ RequestBackground(r)
       \/ Start(r)
       \/ Finish(r)
  \/ Enter
  \/ Leave

QueueSpec == QueueInit /\ [][QueueNext]_queueVars

-----------------------------------------------------------------------------
(* The exclusive section really is exclusive. *)
ExclusiveMeansIdle == exclusive => busy = {}
=============================================================================
