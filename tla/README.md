# A TLA+ model of docker-cert

docker-cert is one Go process (about 1900 lines outside `vendor/`) that keeps a
Let's Encrypt certificate in a directory and a DuckDNS record on the host's
address. It is sequential code run by several goroutines that share two
service objects, one directory tree and three remote services, and that may be
killed and restarted at any instant. This directory holds the models of it, the
TLC configurations that check them, and the TLAPS proofs.

## 1. Inventory

| component | state | operations | talks to |
|---|---|---|---|
| IP updater, `internal/ipupdater` | under `mu`: `lastIPv4`, `lastError`, `lastSuccess`, `lastCheckAttempt`, `initialUpdatePerformed`; `stopChan`, `wg` | `CheckAndPerformIPUpdate`, `UpdateDuckDNSIP`, `GetCurrentPublicIPs`, `StartScheduler`, `StopScheduler`, `GetStatus` | ipify, DuckDNS |
| ACME manager, `internal/acme/manager.go` | no mutex: `lastError`, `lastSuccess`, `user.Registration` | `ManageCertificates`, `GetStatus` | the CA through lego, the storage |
| ACME account, `internal/acme/user.go` | the key in memory, `account.key` on disk, the registration | `NewUser` | the disk |
| storage, `internal/storage` | `archive/` and `live/` on disk | `SaveCertificateResource`, `ChownR` | the disk |
| renewal scheduler, `internal/renewal` | `stopChan`, `wg` | `Start`, `Stop` | the ACME manager |
| HTTP API, `internal/httpapi` | `server` | `/healthz`, renew, current IP, update IP, `Start`, `Shutdown` | both services, in goroutines nobody waits for |
| configuration, `internal/config` | read once | `LoadConfig` and its parsers | the environment |
| main, `cmd/docker-cert` | the order of start-up and shutdown | | all of the above |
| health check, `cmd/healthcheck` | none | one GET | the HTTP API |

How they interact: main starts one IP check in a goroutine, then runs
`ManageCertificates` itself, and only then starts the HTTP server, the two
schedulers and the signal handler. From there on an IP check can be running in
main's goroutine, in the scheduler's and in one per API request, and a
certificate run in the scheduler's goroutine and in one per API request.
Nothing serializes them. Shutdown gives HTTP server and schedulers 15 seconds
together and does not know of the goroutines the API started.

What is hard, and so what the properties are for (`PROJECT.json` has the list,
line by line):

* *IP updater*: the mutex is released around every request, so remembered
  address and published address can part; an answer can be lost after the
  request took effect; a failed first update must be tried again; the status
  must be right whatever overlaps. Correct means: at rest the status tells the
  truth, the remembered address is the published one, and the record follows
  the host.
* *Storage*: a save is some twenty system calls in an order Go's maps choose,
  each of which can fail or be the last one before a crash; two saves can
  overlap, even in the same second, which is all that tells their files apart.
  Correct means: a reader of `live/` never sees a torn or older file, nothing
  dangles, success means the whole bundle is served.
* *ACME manager*: the check of the live certificate and the order it leads to
  are minutes apart; the error field is racy; registration state survives from
  one run to the next. Correct means: at rest "ok" means a usable certificate,
  no needless order is placed, a certificate near expiry gets replaced.
* *Life cycle, HTTP API*: start of goroutines racing with their stop, one
  deadline for three waits, untracked goroutines, a health status that decides
  whether the container is killed.

## 2. Plan

| # | module | what | status |
|---|---|---|---|
| 1 | `IPUpdater` | the IP updater, any number of callers | done, with `IPUpdaterProofs` |
| 2 | `LiveDirectory`, `CertStorage` | abstract promise of `live/`; the storage, which implements it | done, with `CertStorageProofs` |
| 3 | `AcmeManager` | `ManageCertificates`; extends `CertStorage` | done, with `AcmeManagerProofs` and `SerialRunsProofs` |
| 4 | `Config` | `LoadConfig`, its durations, booleans and lists, `determineTargetDomains` | done, with `ConfigProofs` |
| 5 | `Lifecycle` | main from the environment to the exit, the account key, both schedulers' goroutines, shutdown; extends `Config` | done, with `LifecycleProofs` |
| 6 | `CertRuns`, `IPRuns` | abstract specifications of what others see of 1 and 3 | done; refinements checked and proved |
| 7 | `HttpApi` | requests, health rule, bearer check, health-check command; extends `Config`, composed with 6 | done, with `HttpApiProofs` |

Left for later: the names in issued certificates, which `ManageCertificates`
never compares with the configured ones; requests that DuckDNS applies after
the client gave up on them. Every safety invariant, action property and
refinement that a passing run checks is stated by a theorem.
Three modules of the first plan were dropped: an abstract specification of the
DNS record, because what survives of it next to `ip_overlap` and
`ip_lost_reply` is `RememberedIsPublished`; one of the TXT record of overlapping
orders, because the code for that is in lego; and one of the account key alone,
which is better placed in `Lifecycle`, among the starts that read it.

## 3. The modules

**`IPUpdater`** has one `pc` per caller. A caller is any goroutine inside
`CheckAndPerformIPUpdate`. Each critical section of `Service.mu` is one action
(`StartCheck`, `FetchFails`, `NoAddress`, `NoChange`, `ChangeFound`,
`BeginUpdate`, `ReplyError`, `ReplyOK`, `CommitFailure`, `CommitSuccess`) and
each network call is at least one step between them; `Accept` is the instant
DuckDNS applies a request, before its answer (`ReplyOK`) or the loss of it
(`LoseReply`). Times are "zero or not", errors "nil or not". `domain` is the
shape of the configured domain (absent, under duckdns.org, other) and never
changes. `Restart` kills the process at any point. `outcome` is a history
variable: how the last check to return ended.

**`LiveDirectory`** is the promise to readers of `live/`: at each name nothing
or a whole file; only a file of the newest bundle appears; a file of the newest
bundle is not taken away.

**`CertStorage`** has one action per system call of `SaveCertificateResource`
that someone else can notice: `OpenArchive` truncates or creates a file,
`WriteArchive` completes it, `RemoveLink`/`DropLink` and `CreateLink` relink a
name. Both loops take their kinds in any order, as Go's maps do. A file's
content is the number of the bundle it came from, or `Torn`. Two writers of one
file (same second) leave either one's content or a mixture (`Written`).
`CallFails`, `RemoveFails` and `Crash` may strike between any two calls, and,
if `StatErrors` is set, `StatFails`: the code takes every error of `os.Stat` but
absence for presence, and links to a file that may not be there. Versions are
local wall-clock seconds: `Tick` moves to a later second, and if `ClockSetBack`
is set the clock may also jump back (NTP, or the end of summer time), so that a
save can meet the files of an earlier one with its own timestamp
(`SecondIsFree`, `Earlier`). `stuck` is a history variable: the names whose last
`os.Remove` failed. The code only logs that, so a link that the new bundle has no
file for stays, and `SavedIsServed` excuses exactly those names.

**`AcmeManager`** extends `CertStorage`: a runner of `ManageCertificates` is a
saver. There is no lock, so runners interleave between any two calls; an action
joins at most a read with the writes right behind it. A live certificate that is
there but cannot be read or parsed is ordered again (`ReadFails`; the history
variable `unread` lets `OrdersOnlyWhenDue` tell). An error is recorded once, with
the return (`Fail`): the code records it where it occurs, and most errors a second
time in `ManageCertificates`, with only log lines in between, so that what other
runs write to the field in that time does not outlast this write. An order takes
more than a second, so a run's save never has the timestamp of one that ended
before the run began (`earliest`), unless the clock is set back. Order and begin
of the save are one action (`Obtain`); from there the runner takes the storage's
steps (`Save`) and then reads its verdict (`Saved`, `SaveFails`). lego is reduced
to what the code relies on: the client takes the account URL from the user when it
is built (`NewClient`), and the CA takes a registration only if it is not signed
with such a URL (`Registered`). Certificates age by `Expire`. `serving` orders
main's run before all others.

**`Config`** is `LoadConfig` as operators on an environment (a function from
the variables that are set to their values): defaults and which of them an
empty value gets, intervals that must be positive, lists with blanks and
repetitions, the required values. `Durations` says which texts are durations.
`TargetDomains` is `determineTargetDomains`. The loops over a list are recursive
functions of the number of items seen (`parseStringSlice`, `Taken`), so that
they can be reasoned about.

**`Lifecycle`** follows main through `LoadConfig`, `NewUser`, the initial run,
serving and shutdown. `NewUser` loads `account.key`, or creates it
(`CreateKey`: the file is there, and torn) and writes it (`WriteKey`); a torn
key is fatal at every later start. `InitialRunEnds` spawns the goroutines of
`Server.Start` and of the schedulers, which from there start when they are
scheduled: `CreateServer`, `Listen`, `StartWorker`. The worker is counted in its
wait group only then, so `BeginStop` may find nobody to wait for; `counted`
remembers that. `MissServer` is `Server.Shutdown` reading `s.server` before
`Start` set it, or not seeing that it did: the field has no lock. `expired` is the
one deadline that the three stops share. `Die` strikes anywhere; `Restart` starts
the same container again, `Recreate` a new one, with any environment. It finds
the files that are on the volume if its `CERTS_BASE_PATH` is the volume's, and
else starts with none; `kept` is what the volume holds meanwhile, to be found by a
container whose path is there again. `account`, `missed` and `counted` are history.

**`CertRuns`** and **`IPRuns`** are what the rest of the program can see of the
manager and of the updater: runs in progress and the fields, or the status,
that `GetStatus` reads. `AcmeManager` and `IPUpdater` implement them
(`ImplementsRuns` in each), so a model built on them leaves out no behaviour of
the detailed ones.

**`HttpApi`** is composed with those two instead of the modules behind them. A
request has a goroutine of its own; `Refused` is `authMiddleware` and the
handler's method check, in that order; `Renew` and `UpdateIP` spawn a run and
answer at once. `Manager.GetStatus` reads `lastError` (`ReadError`) and then
`lastSuccess` (`ReadSuccess`) with runs between them; `Service.GetStatus` is one
step that needs `mu`, which checks take and release (`Lock`, `Unlock`).
`GiveUp` is the health-check command's own deadline: the command exits, `awaited`
becomes false, and the handler goes on by itself. `sawCerts`, `ipInError` and
`overlapped` are the history of a health check while the command waits: which
statuses the manager had, whether the updater's was "error", and whether two
certificate runs overlapped. `cfg` is the configuration of one of the
environments, loaded before the server exists.

`MC*` modules add only instances: symmetry sets, environments, requests, and for
`manager_concurrent` a view that drops history its properties do not read.
Operators that stand right before a definition and vary it (`NeedsUpdateOnce`,
`DropLinkKeepsOld`, `CreateKeyAlways`, `EndStopWhenDone`, ...) are deliberately
wrong versions of it; each breaks one property and thereby shows that the
property is about that piece of code.

## 4. The runs

| run | result | what it shows |
|---|---|---|
| `ip_concurrent` | passes | three overlapping callers, all kinds of domain, lost answers, restarts: `StatusReflectsLastCheck`, `OkMeansPublished`, types; the updater implements `IPRuns` |
| `ip_serial` | passes | one caller, no lost answers, fair ticker: `RememberedIsPublished`, `RecordFollowsAddress` |
| `ip_overlap` | violated | two overlapping checks commit in the other order than DuckDNS applied them |
| `ip_lost_reply` | violated | applied, answer lost, address flips back: stale for ever |
| `ip_token` | violated | `DUCKDNS_IP_UPDATE_TOKEN` is never sent |
| `storage_serial` | passes | errors and crashes anywhere: `LivePromise` (refinement), `SavedIsServed`, types |
| `manager_serial` | passes | main's run, then the scheduler's, with faults and restarts: `StatusReflectsLastRun`, `OkHasCertificate`, `OrdersOnlyWhenDue`, `CertificateStaysFresh`, types |
| `manager_concurrent` | passes | main, scheduler and API overlap in every way, with a clock that may be set back: `OkHasFiles`, `LinksResolve`, `SuccessLeavesFullSet`; the manager implements `CertRuns` (no call fails and nothing dies in this run) |
| `manager_kid` | violated | the second order's registration carries the first's account URL |
| `manager_pair` | violated | after one crash between two links, "ok" over a key that does not fit |
| `lifecycle` | passes | three starts, each container with any of 12 environments, killed anywhere: `AccountKept`, `ExitCutsOnlyOverdueRuns`, `ServerStaysShut`, `TargetsCoverList`, `ShutdownEnds`, `ChecksGoOn`, types |
| `api` | passes | health checks, given up on or not, among overlapping runs and other requests: `ReportedStatusWasTrue`, `ExitCodeIsJustified`, `ProtectedPathsNeedToken`, `HealthAnswers`, types |

The violated runs each check one property that a comment or the README states;
`PROJECT.json` quotes it under "findings".

Some properties are claimed with an exception, which is where the code gives no
more:

* An overlapping run that looked at `live/` before another saved orders again
  although the new certificate is fresh, so `OrdersOnlyWhenDue` is a property of
  `manager_serial`. Two overlapping saves relink the names one by one, so the
  newest certificate can end up next to the key of the other bundle;
  `manager_concurrent` claims that links resolve and that the mandatory names are
  there, not that they match.
* `ExitCutsOnlyOverdueRuns` excuses a worker that was not counted yet when it
  was to stop, and `ServerStaysShut` a server that `Shutdown` did not see: in
  both cases shutdown reports success over something still alive.
* `AccountKept` is about the volume: if `CERTS_BASE_PATH` is set but empty the
  base path is relative, and the key is lost with the container. The account on
  the volume, if there is one, is in use again once the path leads there.
* `SavedIsServed` excuses a link that was to be removed and could not be.
* `OkHasFiles` is claimed only where no call fails and nothing dies. Otherwise it
  is false: the certificate linked, a crash before the key is, a restart, "ok".
  What is left of it for serial runs is `OkHasCertificate`.
* What two savers that write the same file, or a clock set back, do to its content
  is modelled and not claimed: only that names and files are there.
* `ReportedStatusWasTrue` excuses two runs that overlap: between the two reads
  one can fail and the other then find the certificate fresh, so that "ok" is
  reported, which it was at no instant.

Seen while modelling, and not the subject of a run: a crash inside the write of
`account.key` makes every later start fatal until somebody removes the file; `GET
/ip/current` waits up to 30 s for the address while the server's `WriteTimeout` is
15 s, so a late answer is lost; the certificate in `live/` is judged by its expiry
only, so a changed domain list has no effect before the next renewal; the compose
file passes the whole `LETSENCRYPT_DOMAIN` list as the domain of the IP update. An
interval of zero becomes the default. Whether it should is open: the comment at
`config.go:216` begins with "Allow 0 for disabling" and ends with "Here, we assume
positive duration for intervals", and `main.go:97` and `main.go:105` log "checks
disabled" in branches that no interval reaches. So the environments of `lifecycle`
leave zero out, and `ChecksGoOn` says nothing of it; `parseDuration` has what the
code does.

*Bounds.* `ip_*`: two addresses suffice for "changes and changes back", three
are used where one caller is alone (`ip_serial`); the third caller of
`ip_concurrent` lets two overlap while another's effect is observed. No counter
needs a bound. `CertStorage`: `MaxIssued` bundles (one to be there, one to
replace it, one more to see the effect of a failed replacement) and `MaxFaults`
errors or crashes (two: a fault, and one while recovering from it). Three kinds:
a certificate, a key and one that may be missing; `fullchain` is a kind like
`cert` and is not in the instances. `manager_concurrent` has two bundles, one for
each of two savers at work, and three runners so that a third looks on; it has
no faults, which together with overlap would be too many states.
`LinksResolve` and `SuccessLeavesFullSet` are proved for both together.
`StatErrors` is on where one saver is at work and off where `LinksResolve` is
checked, which it would break. The clock has at most `MaxIssued` seconds, as
only the order and equality of versions matter. `Lifecycle`: `MaxStarts` is three:
one start to leave something on the volume, one elsewhere, and one to come back to
it. The 12 environments override a typical one: four shapes of list with and
without wildcard, boolean spellings, intervals that are empty, negative, no
duration or given, a domain, a token and a base path set and empty, and four that
are rejected.
`HttpApi`: one client beside the health-check command, with one run of each kind
at a time, and the schedulers' goroutine; two environments (token or none) and seven
requests: one for each answer the middleware and the handlers can give, and to
protected paths a right token behind a wrong scheme and among three words, a
missing header, and a wrong method. The command is run again only when the handler
of its last request has ended.
`CHECK_DEADLOCK` is off in `storage_serial`, where all bundles can be used up,
and in `lifecycle`, where the last process ends.

*Fairness.* Goroutines run (weak fairness of each caller's steps), the ticker
fires for ever (`WF` of the scheduler's start; its period is positive because
`parseDuration` replaces any other by the default), and a remote service asked
again and again answers again and again (`SF` of `Fetched`, `Accept`, `ReplyOK`;
of `NewClient`, `Registered`, `Obtain`). `Registered` is not enabled while the
client has an old account URL, so its fairness does not hide that failure.
`FairSpec` of the updater is one process that stays up: `ip_serial` starts from
every record and has no `Restart` (`ip_concurrent` has, and `RememberedCorrect`
covers restarts). `FairSpec` of the manager contains restarts, at most `MaxFaults`
of them together with disk errors; `CertificateStaysFresh` asks for nothing once
the bounded behaviour has issued its last bundle, because a fault in that one
could not be made good. `Lifecycle` assumes that main's shutdown steps, launchers
and tickers run and that deadlines pass, not that a run or a request ever ends:
`ShutdownEnds` rests on the deadline alone. `HttpApi` assumes that a critical
section ends (it makes no call) and `SF` of the handler of the health check,
because `sync.Mutex` hands itself to a goroutine that has waited long; that
handler need not be waited for by the command. No run, and nothing on the network,
is assumed to end.

## 5. What is proved

Each `*Proofs` module extends the component's. The theorems hold for any values
of the constants that satisfy the named assumptions, plus what is said here.

`IPUpdaterProofs`, from `AddrsAssumption` and `DomainsAssumption`:

* `TypeCorrect`: `TypeOK`, inductive as it stands, with the clause that a caller
  past its decision has an address.
* `StatusCorrect`: `StatusReflectsLastCheck`. Inductive given the types: an
  action returns and sets both sides, or leaves its caller inside an update, or
  touches neither.
* `OkCorrect`: `OkMeansPublished`. Not inductive: in the middle of a first
  update both flags that let the status be "ok" can be set with nothing
  remembered. `FlagsAreOwed` says who owes the address then: `lastSuccess` is
  owed by a caller between its answer and its commit, `initialUpdatePerformed`
  without error by a caller in an update. At rest nobody owes anything.
* `RememberedCorrect`: `RememberedIsPublished` if `Callers = {Scheduler}` and no
  answer is lost, which `ip_overlap` and `ip_lost_reply` show to be necessary.
  `RecordIsTracked` adds that between acceptance and commit the record is the
  address in the caller's hand.
* `UpdaterImplementsRuns`: every step is one of `IPRuns` or a stutter. A status
  once left is never "initializing" again because a caller that has decided on an
  update has set `initialUpdatePerformed` (`DecidedIsPerformed`).

`CertStorageProofs`, from `KindsAssumption`, `BoundsAssumption`,
`StatAssumption` and `SentinelsAssumption`:

* `StorageTypeCorrect`; `LinksCorrect`: no dangling link, with any number of
  overlapping savers and any clock, if `StatErrors` is off. `LinksHaveTargets` is
  the strengthening: who is about to create a link has found the file, and files
  never go away.
* `FullSetCorrect`: `SuccessLeavesFullSet`. A saver in its second loop has every
  mandatory file in the archive (`MandatoryArchived`), and a mandatory name that
  is missing, although some saver has linked it, is owed by another that has yet
  to link it or will report a failure (`MissingIsOwed`).
* `LivePromiseKept` and `SavedCorrect`: one saver with a clock that only advances
  implements `LiveDirectory` and keeps `SavedIsServed` through any errors and
  crashes. The inductive invariant, `SerialDisk`, speaks of any number of savers
  of which at most one is at work: every bundle has one saver (`Books`), no save
  has reached a version later than the last one's, in `archive/` (`ArchiveIsPast`)
  or by a link (`LinksArePast`), links lead to whole files or dangle, the saver
  at work has the newest bundle and all of it (`HasNewest`), how far each of its
  files is (`FileProgress`), and what the newest save has linked stays linked
  (`ServedByNow`). It is kept (`SerialStep`) by every step in which a save
  begins only when it is `Alone`: no other is at work, and all before it are of
  earlier seconds. Then `BeginSave` maps to `Publish`,
  `RemoveLink`, `DropLink` and `StatFails` to `Withdraw` or a stutter,
  `CreateLink` to `Show` (a stutter if it links to nothing), all others to
  stutters.

`AcmeManagerProofs`, from those and `RunnersAssumption`:

* `SavesOnly`: every step of the manager is a storage step or leaves the storage
  alone, so that `ManagedLinksCorrect` and `ManagedFullSetCorrect` follow from the
  storage's lemmas. `ManagerTypeCorrect`: types.
* `ManagerImplementsRuns`: every step is one of `CertRuns` or a stutter, failed
  calls, deaths and restarts included.
* `OkFilesCorrect`: `OkHasFiles`, if the disk fails no call and no process dies
  (`StatErrors` off; `MaxFaults = 0` excludes crashes and restarts, too), with any
  number of overlapping runs and any clock. `Accounted` says of a mandatory name
  that is missing: a save has just taken it away and will put it back, or no save
  has linked it yet, and then one can still do so or no run has ever succeeded.
* `LastRunCorrect`: `StatusReflectsLastRun` if only main and the scheduler run
  it. `SerialInv`: main's run is over before the scheduler's first (`InTurn`, by
  `TurnStep`), and a run that looks at the certificate has cleared the field.

`SerialRunsProofs`, from the same, about the program whose renewal endpoint is not
used: only main and the scheduler run `ManageCertificates` (`InTurn`). All but
the first theorem assume that the clock is never set back; all but the last hold
across failed calls, failed orders, crashes and restarts.

* `OrdersCorrect`: `OrdersOnlyWhenDue`, with any clock. `DueStill`: what made a
  run decide on an order is still true at the order, because nobody else
  replaces the certificate in between.
* `ManagedPromiseKept`: `LivePromise` of the manager's disk. Here the savers are
  two goroutines, and that they save one after the other is to be shown:
  `OrdersLater` says that a run orders in a later second than every save before
  it (the order itself takes longer than a second), which with `InTurn` makes each
  `Obtain` a save that is `Alone` (`OrderIsAlone`). `SerialDisk` is then inductive
  by the storage's own lemma.
* `CertificateCorrect`: `OkHasCertificate`. `OkIsTrue`: at rest nobody touches the
  disk, so that it is as the run that reported "ok" found it, or left it
  (`SavedShows`).
* `PairCorrect`: `OkHasPair` if no call fails and nothing dies (`MaxFaults = 0`).
  `NothingLost`: no save that began is given up, so all names are of the newest
  bundle whenever no save is in progress. `manager_pair` shows that one fault is
  enough to break it; with `MaxFaults = 0` the same instance passes.

`ConfigProofs`, from `Config`'s assumption: what the two loops over a list compute,
for lists of any length.

* `KeptItems`: `parseStringSlice` keeps exactly the items that are not blank.
  `TakenCovers`: the loop of `determineTargetDomains` takes exactly the names it
  began with and those of the list, each once.
* They rest on an induction that is itself proved: finite sets are well founded
  by inclusion, so a set of numbers has a least member (`Least`), so a set that
  has 0, and n with n - 1, has all (`Induction`). `LoopExists` shows with it that
  a loop of m rounds computes something, that is, that the recursive function is
  not a `CHOOSE` from nothing; `TakenLoop` and `KeptLoop` apply it to the two.

`LifecycleProofs`, from `StartsAssumption`, `KeysAssumption`, `ListsAssumption` (an
environment's list is a sequence of names) and `Config`'s:

* `LifecycleTypeCorrect`: types, and wait groups that count exactly the workers
  that are there (`TypeInv`; before main serves there are none).
* `AccountCorrect`: `AccountKept`, with "while main writes the key the file is
  torn" and with "an account `kept` on the volume is in its key file" (`KeyInv`).
* `ExitCorrect`: `ExitCutsOnlyOverdueRuns`. `StopInv`: a worker that was counted
  is stopped once its wait has returned, and main passed a stop only through
  that or the deadline.
* `ServerCorrect`: `ServerStaysShut`, by `ServerInv`: a server told to shut down
  never listens, and past the drain a connection means that the deadline is past.
* `TargetsCorrect`: `TargetsCoverList`, from `KeptItems`, `TakenCovers` and
  `Accepted`: who makes the initial run has had its configuration accepted, so
  its list has a first name.

`HttpApiProofs`, from `ClientsAssumption`, `RequestsAssumption` (a header is a
sequence of words) and `Config`'s:

* `HttpTypeCorrect`: types, and `mu` is held exactly by a check in a critical
  section.
* `ReportedStatusCorrect` and `ExitCodeCorrect`: `ReportedStatusWasTrue` and
  `ExitCodeIsJustified`, for any clients, requests and environments. `HealthInv`
  says, of each point of a health check, what the history must hold: what has
  been read was true at some instant (`ReadsWereTrue`), and the second read
  completes a pair of values that were there together (`PairsWereTrue`), since
  without overlap only the run that cleared `lastError` can set `lastSuccess`.
  `UpdaterEnabled` rules out a 503 for a disabled updater.
* `TokenNeeded`: `ProtectedPathsNeedToken`. A step into a handler behind the
  middleware means that `Refused` had nothing to say, and so, since a header is two
  words exactly (`TwoWords`), that the request bears the token (`BearsToken`).

Only model-checked: the liveness properties (`RecordFollowsAddress`,
`CertificateStaysFresh`, `ShutdownEnds`, `ChecksGoOn`, `HealthAnswers`), because
fairness is beyond the prover. `RememberedIsPublished` and `OkHasPair`, which a run
violates, are proved under the conditions above, which those runs do not meet;
`RegistersAfresh` is not true of the code.

## 6. Not modelled

The vendored libraries, beyond what the code relies on; log output and its
masking; response bodies; IPv6, whose fetch is commented out; file modes and
ownership (`ChownR`'s failure is only logged); the fields of the configuration
that only reach lego or the log (e-mail, chain, testing switch, UID, GID, port);
the names in issued certificates; requests delivered to DuckDNS after the client
gave up; the TXT records of overlapping orders, which lego writes; the container
image and the compose file, of which the restart policy and the volume appear as
`Restart` and `Recreate`.

## 7. Running

    tlc -config ip_concurrent.cfg MCIPUpdater.tla        # and the other ip_*.cfg
    tlc -config storage_serial.cfg CertStorage.tla
    tlc -config manager_concurrent.cfg MCAcmeManager.tla # and the other manager_*.cfg
    tlc -config lifecycle.cfg MCLifecycle.tla
    tlc -config api.cfg MCHttpApi.tla
    tlapm IPUpdaterProofs.tla                            # and the other *Proofs.tla

The longest run takes a few minutes, the proofs together some more.
