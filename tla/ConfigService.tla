---------------------------- MODULE ConfigService ----------------------------
(***************************************************************************)
(* ConfigService over ConfigRepository: how a configuration is stored in   *)
(* SQLite, published to the running ServerCore, and loaded again when the  *)
(* process starts.  A save holds mutex_ and has three steps: the candidate *)
(* is built from the stored lists and prepared, the repository repeats the *)
(* change in one transaction, the prepared activation publishes the        *)
(* candidate.  The process may die between any two steps.                  *)
(*                                                                         *)
(* A site is its id, host and flags; a certificate its id, name, domain,   *)
(* flags and PEM, which may expire.  A refused save changes nothing and is *)
(* a stuttering step.  Ports are the business of module Server: here       *)
(* preparing a reload or starting the server may simply fail.              *)
(***************************************************************************)
EXTENDS Naturals, FiniteSets, Lists

CONSTANTS
  SiteInputs,      \* what an administrator submits: [host, enabled, https]
  CertInputs,      \* [name, domain, pem, enabled, default]
  Settings,        \* values of the runtime settings
  Backups,         \* [sites, certs, settings] as import_configuration parses it
  DefaultSettings, \* the column defaults of runtime_settings
  ExampleSite,     \* the site of seed_default_site
  ExampleCert,     \* the certificate of seed_default_certificate
  MaxRevision,     \* bound on config_revision
  MaxCrashes       \* bound on ends of the process

ASSUME ConfigAssumption ==
  /\ DefaultSettings \in Settings /\ ExampleSite \in SiteInputs /\ ExampleCert \in CertInputs
  /\ \A s \in SiteInputs : s.enabled \in BOOLEAN /\ s.https \in BOOLEAN
  /\ \A c \in CertInputs : c.enabled \in BOOLEAN /\ c.default \in BOOLEAN
  /\ \A b \in Backups : /\ b.sites \in Seq(SiteInputs) /\ b.certs \in Seq(CertInputs)
                        /\ b.settings \in Settings
  /\ MaxRevision \in Nat /\ MaxRevision >= 2  \* the schema and the example site
  /\ MaxCrashes \in Nat

VARIABLES
  db,        \* the SQLite file
  process,   \* where run_server is
  handler,   \* reload_handler_ is set
  active,    \* active_revision_
  runtime,   \* the RuntimeConfig that ServerCore has published
  save,      \* the save that holds mutex_
  expired,   \* the PEMs whose validity has ended
  used,      \* every site id ever stored
  seeds,     \* how often the example site was created
  crashes    \* ends of the process so far

vars == << db, process, handler, active, runtime, save, expired, used, seeds, crashes >>

NoRuntime == [revision |-> 0]
NoContext == "none"
NoSave == [stage |-> "none"]
LatestSchema == 7
Managed == {"running", "recovery"}  \* the Admin listener answers

Pems == {c.pem : c \in CertInputs}
Site(id, in) == [id |-> id, host |-> in.host, enabled |-> in.enabled, https |-> in.https]
Cert(id, in) == [id |-> id, name |-> in.name, domain |-> in.domain, pem |-> in.pem,
                 enabled |-> in.enabled, default |-> in.default]
Ids(list) == {r.id : r \in Range(list)}
Replaced(list, r) == [i \in DOMAIN list |-> IF list[i].id = r.id THEN r ELSE list[i]]
Without(list, id) == Select(list, {r \in Range(list) : r.id # id})
ClearDefault(certs) == [i \in DOMAIN certs |-> [certs[i] EXCEPT !.default = FALSE]]
Distinct(list, Field(_)) ==
  \A i, j \in DOMAIN list : Field(list[i]) = Field(list[j]) => i = j

-----------------------------------------------------------------------------
(* The runtime configuration *)

\* list_sites: ORDER BY id, the order in which AUTOINCREMENT appended them.
ListSites == db.sites

\* list_certificates: ORDER BY is_default DESC, id.
ListCertificates ==
  LET defaults == {c \in Range(db.certs) : c.default}
  IN Select(db.certs, defaults) \o Select(db.certs, Range(db.certs) \ defaults)

Lists == [sites |-> ListSites, certs |-> ListCertificates, settings |-> db.settings]

Enabled(list) == Select(list, {r \in Range(list) : r.enabled})
HasHttps(lists) == \E s \in Range(Enabled(lists.sites)) : s.https

\* build_runtime_config throws nothing: distinct hosts on a port and, when some
\* site has HTTPS, certificates that load, do not collide and cover its host.
Buildable(lists) ==
  LET sites == Enabled(lists.sites)
      certs == Enabled(lists.certs)
  IN /\ Distinct(sites, LAMBDA s : s.host)
     /\ HasHttps(lists) =>
          /\ certs # << >>
          /\ Distinct(certs, LAMBDA c : c.name) /\ Distinct(certs, LAMBDA c : c.domain)
          /\ Cardinality({i \in DOMAIN certs : certs[i].default}) <= 1
          /\ \A c \in Range(certs) : c.pem \notin expired
          /\ \A s \in Range(sites) : s.https => \E c \in Range(certs) : c.domain = s.host

\* TlsContextManager: the context of a client that sends no server name.
DefaultContext(certs) ==
  IF \E c \in Range(certs) : c.default
  THEN (CHOOSE c \in Range(certs) : c.default).name
  ELSE certs[1].name

\* RuntimeConfig: what the data plane can observe of it.
RuntimeConfig(lists, revision) ==
  LET certs == Enabled(lists.certs)
  IN [revision |-> revision,
      routes   |-> {[id |-> s.id, host |-> s.host, https |-> s.https] :
                      s \in Range(Enabled(lists.sites))},
      contexts |-> IF HasHttps(lists)
                   THEN {[name |-> c.name, domain |-> c.domain, pem |-> c.pem] : c \in Range(certs)}
                   ELSE {},
      default_context |-> IF HasHttps(lists) THEN DefaultContext(certs) ELSE NoContext,
      settings |-> lists.settings]

-----------------------------------------------------------------------------
(* The changes an administrator may ask for *)

\* Where the input of a save passes validate_and_normalize_certificate.
ValidCert(in) == in.pem \notin expired

Changes ==
       [op: {"create_site"}, site: SiteInputs]
  \cup [op: {"update_site"}, id: Ids(db.sites), site: SiteInputs]
  \cup [op: {"delete_site"}, id: Ids(db.sites)]
  \cup [op: {"create_certificate"}, cert: {c \in CertInputs : ValidCert(c)}]
  \cup [op: {"update_certificate"}, id: Ids(db.certs), cert: {c \in CertInputs : ValidCert(c)}]
  \cup [op: {"delete_certificate"}, id: Ids(db.certs)]
  \cup [op: {"update_runtime_settings"}, settings: Settings]
  \cup [op: {"import_configuration"},
        backup: {b \in Backups :
                   /\ \A c \in Range(b.certs) : ValidCert(c)
                   /\ Distinct(b.sites, LAMBDA s : s.host) /\ Distinct(b.certs, LAMBDA c : c.name)
                   /\ Cardinality({i \in DOMAIN b.certs : b.certs[i].default}) <= 1}]
  \cup [op: {"reload_runtime"}]

\* Mutant: predicted from the rows that are left.
NextSiteIdFromRows == IF db.sites = << >> THEN 1 ELSE Last(db.sites).id + 1

\* next_site_id: one more than sqlite_sequence holds for the table.
NextSiteId == db.siteSeq + 1

\* The lists the service edits to build its candidate.
Candidate(c) ==
  CASE c.op = "create_site" -> [Lists EXCEPT !.sites = Append(@, Site(NextSiteId, c.site))]
    [] c.op = "update_site" -> [Lists EXCEPT !.sites = Replaced(@, Site(c.id, c.site))]
    [] c.op = "delete_site" -> [Lists EXCEPT !.sites = Without(@, c.id)]
    [] c.op = "create_certificate" ->
         [Lists EXCEPT !.certs = Append(IF c.cert.default THEN ClearDefault(@) ELSE @,
                                        Cert(0, c.cert))]
    [] c.op = "update_certificate" ->
         [Lists EXCEPT !.certs = Replaced(IF c.cert.default THEN ClearDefault(@) ELSE @,
                                          Cert(c.id, c.cert))]
    [] c.op = "delete_certificate" -> [Lists EXCEPT !.certs = Without(@, c.id)]
    [] c.op = "update_runtime_settings" -> [Lists EXCEPT !.settings = c.settings]
    [] c.op = "import_configuration" ->
         [sites |-> [i \in DOMAIN c.backup.sites |-> Site(NextSiteId + i - 1, c.backup.sites[i])],
          certs |-> [i \in DOMAIN c.backup.certs |-> Cert(0, c.backup.certs[i])],
          settings |-> c.backup.settings]
    [] c.op = "reload_runtime" -> Lists

-----------------------------------------------------------------------------
(* The repository: each operation is one transaction *)

IncrementRevision(d) == [d EXCEPT !.revision = @ + 1]

\* Mutant: a table without AUTOINCREMENT.
InsertSiteReusing(d, in) ==
  [d EXCEPT !.sites = Append(@, Site(IF d.sites = << >> THEN 1 ELSE Last(d.sites).id + 1, in)),
            !.siteSeq = @ + 1]

\* AUTOINCREMENT gives the row the number after the largest one ever used.
InsertSite(d, in) ==
  [d EXCEPT !.sites = Append(@, Site(d.siteSeq + 1, in)), !.siteSeq = @ + 1]

InsertCert(d, in) ==
  [d EXCEPT !.certs = Append(@, Cert(d.certSeq + 1, in)), !.certSeq = @ + 1]

ReplaceConfiguration(d, backup) ==
  LET emptied == [d EXCEPT !.sites = << >>, !.certs = << >>]
      withSites == FoldLeft(InsertSite, emptied, backup.sites)
  IN [FoldLeft(InsertCert, withSites, backup.certs) EXCEPT !.settings = backup.settings]

\* create_site is also how seed_default_site stores its example.
CreateSite(in) == IncrementRevision(InsertSite(db, in))
UpdateSite(id, in) == IncrementRevision([db EXCEPT !.sites = Replaced(@, Site(id, in))])
DeleteSite(id) == IncrementRevision([db EXCEPT !.sites = Without(@, id)])
CreateCertificate(in) ==
  IncrementRevision(InsertCert([db EXCEPT !.certs = IF in.default THEN ClearDefault(@) ELSE @], in))
UpdateCertificate(id, in) ==
  IncrementRevision([db EXCEPT !.certs =
    Replaced(IF in.default THEN ClearDefault(@) ELSE @, Cert(id, in))])
DeleteCertificate(id) == IncrementRevision([db EXCEPT !.certs = Without(@, id)])
UpdateRuntimeSettings(s) == IncrementRevision([db EXCEPT !.settings = s])

\* The database after the transaction of a change; reload_runtime has none.
Stored(c) ==
  CASE c.op = "create_site" -> CreateSite(c.site)
    [] c.op = "update_site" -> UpdateSite(c.id, c.site)
    [] c.op = "delete_site" -> DeleteSite(c.id)
    [] c.op = "create_certificate" -> CreateCertificate(c.cert)
    [] c.op = "update_certificate" -> UpdateCertificate(c.id, c.cert)
    [] c.op = "delete_certificate" -> DeleteCertificate(c.id)
    [] c.op = "update_runtime_settings" -> UpdateRuntimeSettings(c.settings)
    [] c.op = "import_configuration" -> IncrementRevision(ReplaceConfiguration(db, c.backup))
    [] c.op = "reload_runtime" -> db

\* The UNIQUE columns and the partial index one_default_tls_certificate.
Constraints(d) ==
  /\ Distinct(d.sites, LAMBDA s : s.host) /\ Distinct(d.certs, LAMBDA c : c.name)
  /\ Cardinality({i \in DOMAIN d.certs : d.certs[i].default}) <= 1

Write(d) == db' = d /\ used' = used \cup Ids(d.sites)

-----------------------------------------------------------------------------
(* A save *)

\* A save makes the next revision, a reload publishes the stored one.
RevisionOf(c) == IF c.op = "reload_runtime" THEN db.revision ELSE db.revision + 1

\* mutex_ is taken, the candidate materialised and, with a handler, prepared by
\* ServerCore.  reload_runtime throws without a handler.
Prepare(c) ==
  /\ process \in Managed /\ save = NoSave
  /\ RevisionOf(c) <= MaxRevision
  /\ c.op = "reload_runtime" => handler
  /\ Buildable(Candidate(c))
  /\ save' = [stage |-> "prepared", change |-> c, revision |-> RevisionOf(c),
              candidate |-> RuntimeConfig(Candidate(c), RevisionOf(c))]
  /\ UNCHANGED << db, process, handler, active, runtime, expired, used, seeds, crashes >>

CommitTransaction ==
  /\ save.stage = "prepared" /\ Constraints(Stored(save.change))
  /\ Write(Stored(save.change))
  /\ save' = [save EXCEPT !.stage = "committed"]
  /\ UNCHANGED << process, handler, active, runtime, expired, seeds, crashes >>

\* A constraint or the disk makes the transaction roll back: the prepared reload
\* is dropped with the exception.
RollBack ==
  /\ save.stage = "prepared" /\ save.change.op # "reload_runtime"
  /\ save' = NoSave
  /\ UNCHANGED << db, process, handler, active, runtime, expired, used, seeds, crashes >>

\* commit_candidate_locked: nothing to do without a handler.
Activate ==
  /\ save.stage = "committed"
  /\ runtime' = IF handler THEN save.candidate ELSE runtime
  /\ active' = IF handler THEN save.revision ELSE active
  /\ save' = NoSave
  /\ UNCHANGED << db, process, handler, expired, used, seeds, crashes >>

-----------------------------------------------------------------------------
(* The process *)

Boot ==
  /\ process = "down" /\ process' = "migrating"
  /\ UNCHANGED << db, handler, active, runtime, save, expired, used, seeds, crashes >>

\* migrate: one transaction for each schema version not recorded yet.
Migrate ==
  /\ process = "migrating"
  /\ IF db.schema = LatestSchema
     THEN process' = "seeding" /\ UNCHANGED db
     ELSE /\ db' = [db EXCEPT !.schema = @ + 1,
                              !.revision = IF db.schema = 0 THEN 1 ELSE @,
                              !.settings = IF db.schema = 2 THEN DefaultSettings ELSE @]
          /\ UNCHANGED process
  /\ UNCHANGED << handler, active, runtime, save, expired, used, seeds, crashes >>

\* Mutant: the sites are not counted.
NeedsExampleSiteUncounted == ~db.seeded

NeedsExampleSite == ~db.seeded /\ db.sites = << >>

\* seed_default_site, its transaction; when that throws, initialize() does too and
\* the process ends.
SeedSite ==
  /\ process = "seeding"
  /\ IF NeedsExampleSite
     THEN IF Constraints(CreateSite(ExampleSite))
          THEN Write(CreateSite(ExampleSite)) /\ seeds' = seeds + 1 /\ process' = "marking"
          ELSE process' = "down" /\ UNCHANGED << db, used, seeds >>
     ELSE process' = "marking" /\ UNCHANGED << db, used, seeds >>
  /\ UNCHANGED << handler, active, runtime, save, expired, crashes >>

\* The mark is a statement of its own; initialize() then reads the revision.
MarkSeeded ==
  /\ process = "marking" /\ process' = "initialized"
  /\ db' = [db EXCEPT !.seeded = TRUE]
  /\ active' = db.revision
  /\ UNCHANGED << handler, runtime, save, expired, used, seeds, crashes >>

\* Mutant: active_revision_ is left alone.
EnterRecoveryQuietly ==
  /\ process' = "recovery" /\ UNCHANGED active /\ handler' = FALSE /\ runtime' = NoRuntime

\* The catch block of run_server: mark_runtime_unavailable, server.reset().
EnterRecovery ==
  /\ process' = "recovery" /\ active' = 0 /\ handler' = FALSE /\ runtime' = NoRuntime

SeedableCert ==
  /\ ValidCert(ExampleCert)
  /\ Buildable([Lists EXCEPT !.certs = << Cert(0, ExampleCert) >>])

\* The certificate files may also be missing.
SeedCertificate ==
  /\ process = "initialized"
  /\ \/ /\ db.certs # << >>
        /\ process' = "loading" /\ UNCHANGED << db, used, active, handler, runtime >>
     \/ /\ db.certs = << >> /\ SeedableCert /\ db.revision < MaxRevision
        /\ Write(CreateCertificate(ExampleCert))
        /\ active' = db.revision + 1
        /\ process' = "loading" /\ UNCHANGED << handler, runtime >>
     \/ /\ db.certs = << >>
        /\ EnterRecovery /\ UNCHANGED << db, used >>
  /\ UNCHANGED << save, expired, seeds, crashes >>

\* load_runtime_config, the ServerCore, set_reload_handler.
LoadRuntime ==
  /\ process = "loading"
  /\ IF Buildable(Lists)
     THEN /\ runtime' = RuntimeConfig(Lists, db.revision)
          /\ handler' = TRUE /\ process' = "starting" /\ UNCHANGED active
     ELSE EnterRecovery
  /\ UNCHANGED << db, save, expired, used, seeds, crashes >>

\* A port may be taken.
StartServer ==
  /\ process = "starting"
  /\ \/ process' = "running" /\ UNCHANGED << handler, active, runtime >>
     \/ EnterRecovery
  /\ UNCHANGED << db, save, expired, used, seeds, crashes >>

\* The process ends, whatever it is doing: an open transaction is undone, what is
\* in memory is gone.
Crash ==
  /\ process # "down" /\ crashes < MaxCrashes
  /\ crashes' = crashes + 1
  /\ process' = "down" /\ handler' = FALSE /\ active' = 0
  /\ runtime' = NoRuntime /\ save' = NoSave
  /\ UNCHANGED << db, expired, used, seeds >>

\* Time passes the end of a certificate's validity.
Expire(pem) ==
  /\ expired' = expired \cup {pem}
  /\ UNCHANGED << db, process, handler, active, runtime, save, used, seeds, crashes >>

-----------------------------------------------------------------------------
EmptyDatabase ==
  [schema |-> 0, revision |-> 0, seeded |-> FALSE, sites |-> << >>, certs |-> << >>,
   siteSeq |-> 0, certSeq |-> 0, settings |-> DefaultSettings]

Init ==
  /\ db = EmptyDatabase /\ process = "down"
  /\ handler = FALSE /\ active = 0 /\ runtime = NoRuntime /\ save = NoSave
  /\ expired = {} /\ used = {} /\ seeds = 0 /\ crashes = 0

Start == Boot \/ Migrate \/ SeedSite \/ MarkSeeded \/ SeedCertificate \/ LoadRuntime \/ StartServer

Next ==
  \/ \E c \in Changes : Prepare(c)
  \/ CommitTransaction \/ RollBack \/ Activate
  \/ Start \/ Crash
  \/ \E pem \in Pems : Expire(pem)

\* The service manager restarts a process that ended; run_server and a save go on
\* by themselves.
Fairness == WF_vars(Start) /\ WF_vars(CommitTransaction \/ RollBack) /\ WF_vars(Activate)

Spec == Init /\ [][Next]_vars /\ Fairness

-----------------------------------------------------------------------------
(* Properties *)

SiteRow == [id: Nat, host: {s.host : s \in SiteInputs}, enabled: BOOLEAN, https: BOOLEAN]
CertRow == [id: Nat, name: {c.name : c \in CertInputs}, domain: {c.domain : c \in CertInputs},
            pem: Pems, enabled: BOOLEAN, default: BOOLEAN]
Database == [schema: 0 .. LatestSchema, revision: 0 .. MaxRevision, seeded: BOOLEAN,
             sites: Seq(SiteRow), certs: Seq(CertRow), siteSeq: Nat, certSeq: Nat,
             settings: Settings]

\* The rows of a table stand in the order of their ids, none above the table's
\* sequence: what ORDER BY id returns and what AUTOINCREMENT promises.
Ascending(rows, last) ==
  /\ \A i \in DOMAIN rows : rows[i].id \in 1 .. last
  /\ \A i, j \in DOMAIN rows : i < j => rows[i].id < rows[j].id

\* Every variable has its type: the rows of the database are in the order of
\* their ids and the revisions stay within their bound.
TypeOK ==
  /\ db \in Database /\ Ascending(db.sites, db.siteSeq) /\ Ascending(db.certs, db.certSeq)
  /\ process \in {"down", "migrating", "seeding", "marking", "initialized", "loading",
                  "starting", "running", "recovery"}
  /\ handler \in BOOLEAN /\ active \in 0 .. MaxRevision
  /\ save.stage \in {"none", "prepared", "committed"}
  /\ expired \subseteq Pems /\ used \subseteq Nat /\ seeds \in Nat /\ crashes \in 0 .. MaxCrashes

\* The choice of the default certificate left aside, two runtime configurations
\* answer every request alike.
SameService(r1, r2) ==
  /\ r1.revision = r2.revision /\ r1.routes = r2.routes
  /\ r1.contexts = r2.contexts /\ r1.settings = r2.settings

StoredRuntime == RuntimeConfig(Lists, db.revision)

\* Except between COMMIT and the activation, the running server serves exactly the
\* sites (with their ids), certificates and settings that a restart would load from
\* SQLite: never a candidate that was rolled back, never an older revision.
ServedIsStored ==
  process = "running" /\ save.stage # "committed" => SameService(runtime, StoredRuntime)

RestartRequired == db.revision # active

\* restart_required() tells the truth: it is false exactly when the data plane runs
\* the stored revision, in recovery mode and after every save too.
RestartRequiredAccurate ==
  process \in Managed /\ save = NoSave =>
    (RestartRequired <=> runtime.revision # db.revision)

Content(d) == << d.sites, d.certs, d.settings >>

\* Once the schema is in place, no change of the stored configuration goes without
\* a new revision, by which restart_required() sees it; and a site id names one
\* site for ever, over deletions, imports, failed saves and crashes, because the
\* backend limiter keys the slots of a site by it.
ChangesTraceable ==
  [][/\ Content(db') # Content(db) /\ db.schema = LatestSchema =>
          db'.revision = db.revision + 1
     /\ (Ids(db'.sites) \ Ids(db.sites)) \cap used = {}]_vars

\* Wherever the process died before, also inside its first initialisation, it comes
\* up again and the Admin listener answers; and the example site is created at
\* most once, so an administrator who deletes it does not get it back.
StartsAgain ==
  /\ process = "down" ~> process \in Managed
  /\ [](seeds <= 1)

=============================================================================
