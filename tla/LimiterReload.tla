---------------------------- MODULE LimiterReload ----------------------------
(***************************************************************************)
(* The limiter under hot reload.  A request loads the published snapshot   *)
(* once (HttpSession::on_header_read) and carries its site's limits to     *)
(* async_acquire; a commit of ServerCore::prepare_reload, on the admin     *)
(* plane's thread, writes the new limits into the limiter, retires the     *)
(* deleted sites and publishes the snapshot last.  Nothing orders the two  *)
(* threads, so a request may acquire with limits a commit has replaced.    *)
(***************************************************************************)
EXTENDS BackendConcurrencyLimiter

CONSTANTS
  Configs,     \* configurations: a function from Sites to limits or NotConfigured
  MaxReloads   \* bound: reloads in a behaviour

NotConfigured == <<0, 0>>

ASSUME ConfigsType == Configs \subseteq [Sites -> Limits \cup {NotConfigured}]
ASSUME MaxReloadsType == MaxReloads \in Nat

VARIABLES
  published,  \* RuntimeConfigStore::current_
  loaded,     \* the limits a request read from its snapshot; << >> before
  target,     \* PreparedReload::next of the commit in progress
  todo,       \* sites whose update_limits the commit has still to call
  commit,     \* "idle", "limits", "publish": where the commit is
  reloads,    \* reloads started (bounded by MaxReloads)
  stale       \* history: sites an acquire wrote replaced limits into

reloadVars == << published, loaded, target, todo, commit, reloads, stale >>
allVars == << vars, reloadVars >>

Configured(c) == {s \in Sites : c[s] # NotConfigured}

\* The limits the limiter should be using for s: the target's, once the commit
\* in progress has come to s.
InForce(s) ==
  IF commit = "publish" \/ (commit = "limits" /\ s \in Configured(target) \ todo)
  THEN target[s] ELSE published[s]

-----------------------------------------------------------------------------
ReloadInit ==
  /\ Init
  /\ published \in Configs
  /\ loaded = [r \in Requests |-> << >>]
  /\ target = published
  /\ todo = {}
  /\ commit = "idle"
  /\ reloads = 0
  /\ stale = {}

\* The one load of the snapshot, and the routing to a configured site.
LoadSnapshot(r) ==
  /\ loaded[r] = << >>
  /\ published[SiteOf[r]] # NotConfigured
  /\ loaded' = [loaded EXCEPT ![r] = published[SiteOf[r]]]
  /\ UNCHANGED << vars, published, target, todo, commit, reloads, stale >>

\* ProxyTransaction::start_on_executor: acquire with the snapshot's limits.
AcquireLoaded(r) ==
  /\ loaded[r] # << >>
  /\ AsyncAcquire(r, loaded[r])
  /\ stale' = IF loaded[r] # InForce(SiteOf[r]) THEN stale \cup {SiteOf[r]} ELSE stale
  /\ UNCHANGED << published, loaded, target, todo, commit, reloads >>

\* prepare_reload takes control_mutex_ and keeps it until the commit's end.
PrepareReload(c) ==
  /\ commit = "idle"
  /\ reloads < MaxReloads
  /\ reloads' = reloads + 1
  /\ target' = c
  /\ todo' = Configured(c)
  /\ commit' = "limits"
  /\ UNCHANGED << vars, published, loaded, stale >>

CommitLimits(s) ==
  /\ commit = "limits"
  /\ s \in todo
  /\ todo' = todo \ {s}
  /\ IF site[s].present THEN UpdateLimits(s, target[s]) ELSE UNCHANGED vars
  /\ stale' = stale \ {s}
  /\ UNCHANGED << published, loaded, target, commit, reloads >>

\* Mutant: the commit forgets the deleted sites.
CommitRetainNothing ==
  /\ commit = "limits"
  /\ todo = {}
  /\ commit' = "publish"
  /\ stale' = stale \cap Configured(target)
  /\ UNCHANGED << vars, published, loaded, target, todo, reloads >>

CommitRetain ==
  /\ commit = "limits"
  /\ todo = {}
  /\ RetainSites(Configured(target))
  /\ commit' = "publish"
  /\ stale' = stale \cap Configured(target)
  /\ UNCHANGED << published, loaded, target, todo, reloads >>

CommitPublish ==
  /\ commit = "publish"
  /\ published' = target
  /\ commit' = "idle"
  /\ UNCHANGED << vars, loaded, target, todo, reloads, stale >>

\* The limiter's other steps do not look at the configuration.
LimiterStep ==
  /\ \E r \in Requests :
       \/ HandOff(r)
       \/ \E built \in BOOLEAN : HandOffThrows(r, built)
       \/ \E controlBlock \in BOOLEAN : AllocationFails(r, controlBlock)
       \/ \E result \in Results : RunHandler(r, result)
       \/ Release(r)
       \/ CancelPending(r)
       \/ TimerExpires(r)
       \/ TimeoutPending(r)
       \/ TimeoutThrows(r)
  /\ UNCHANGED reloadVars

ReloadNext ==
  \/ \E r \in Requests : LoadSnapshot(r) \/ AcquireLoaded(r)
  \/ \E c \in Configs : PrepareReload(c)
  \/ \E s \in Sites : CommitLimits(s)
  \/ CommitRetain
  \/ CommitPublish
  \/ LimiterStep

ReloadSpec == ReloadInit /\ [][ReloadNext]_allVars

\* The limiter's executors keep running; nothing is assumed of requests, releases,
\* cancellations or reloads.
FairReloadSpec == ReloadSpec /\ Fairness

-----------------------------------------------------------------------------
(* Properties                                                              *)

\* After a commit, every site the limiter knows runs with the published limits
\* or, if it was deleted, is retired; only an acquire that carries a replaced
\* snapshot can undo it.
CommitTakesHold ==
  commit = "idle" =>
    \A s \in Sites \ stale :
      site[s].present =>
        IF s \in Configured(published)
        THEN /\ <<site[s].maximum_active, site[s].maximum_queue>> = published[s]
             /\ ~site[s].retired
        ELSE site[s].retired

\* README.md:24: raising the limit admits the waiting queue at once.  Nobody
\* waits while the published limit leaves a slot free and no reload is under way.
RaisedLimitAdmitsQueue ==
  commit = "idle" =>
    \A s \in Configured(published) :
      site[s].queue # << >> => site[s].active >= published[s][1]

=============================================================================
