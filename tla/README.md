# A TLA+ model of annas-mcp

annas-mcp is a Go program that finds articles and books through OpenAlex and
Anna's Archive and downloads them. It runs as an MCP server (many calls at once
in one process) and as a command line (many short processes that share a few
files on disk). The modules in this directory model the parts of it that keep
state or decide: what several calls or processes reach at once, and the chains
of fallbacks and continuations within one call or between calls. TLC checks them
on small instances, and TLAPS proves for instances of any size every invariant
and every action property that a passing run checks, and the safety half of the
three refinements; liveness stays with TLC.

Paths below are relative to the repository root, which `PROJECT.json` calls
`src/`. `PROJECT.json` maps every definition that models code to the lines it
stands for.

## 1. Inventory

The program keeps no database and starts no background jobs. Its state is in
mutex-protected structures of one `anna.Client`, in four kinds of files shared
by processes, and in the goroutines of a call.

| Component | State it keeps | Operations | Talks to |
| --- | --- | --- | --- |
| Mirror selection (`anna/internal/mirror/selector.go`, `health.go`, `anna/mirrors.go`) | per mirror: time of the last success, failures in a row, end of the hold; the mirror in use; the round of checks under way and the time of the last one | `Select`, `checkAll`, `Succeeded`, `Passed`, `Failed`, `onMirrorFrom` | probes the mirrors; every archive request goes through `onMirror` |
| Mirror state file (`anna/internal/mirror/store.go`) | `mirrors.json`: the health of each mirror, shared by processes | load, merge, save | `Health` |
| Session (`anna/session.go`, `session_store.go`) | the session cookie, the sign-in under way, when and how the last one ended; the session file | `ensureSession`, `signIn`, `saveSession`, `restoreSession` | `doGetWith` calls it on a 403; signs in on the mirrors |
| Requests (`anna/client_http.go`, `request_limits.go`, `http_helpers.go`) | one request: header timer, idle timer, byte limit | `doGetWith`, `fetchDocumentWith` | reports failures to `Health`, 403s to the session |
| Archive download (`anna/client_download.go`, `download_existing.go`, `download_file.go`, `download_errors.go`, `scidb.go`) | which call has locked which hash; the download folder; one resumable transfer | `downloadArticle`, `downloadPaper`, `reuseOrDownload`, `FastDownload`, the transfer | mirrors, fast servers, SciDB |
| File statistics (`anna/client_stats.go`) | slots, a cache, a budget of time per call | read details of many records at once | archive pages |
| DOI lookup (`anna/doi_lookup.go`) | batches of candidate records read at once | `lookupDOI` | search, details |
| Search, details, account (`anna/client_search.go`, `details.go`, `account.go`, ...) | none | one request and a parse each | `onMirror` |
| Parsing, matching (`anna/internal/parse`, `anna/internal/match`) | none | HTML to records, comparison of names | |
| Artifact transfer (`internal/filetransfer`) | per artifact: the lease directory with its marker, the cache entry; the downloaded files | `Cached`, `Download`, `lock`, `maintainLease`, `expireLease`, `finalize`, `save` | other processes, through the file system |
| Papers (`papers/`) | none between calls but the cursor it hands out | search, details, download with fallback, paged read | OpenAlex, archive, artifact transfer |
| OpenAlex (`internal/openalex`) | none | one request per operation, refusal of arguments, limits of pages | |
| MCP server, command line (`internal/modes`, `cmd/`) | the archive client, built at its first use | one handler per tool or command | all of the above |
| Environment (`internal/env`, `internal/version`) | none | settings read once | |
| npm launcher (`lib/`, `bin/`) | the installed binary in a cache directory | download, verify, install, run | GitHub releases |
| Scripts | | release and upstream tooling | not part of the program |

### How they interact

An archive call enters `Client.onMirror`. It asks `Selector.Select` for a mirror
(which may probe every mirror, or wait for a probe that another call leads),
runs its operation, and on a failure that is the mirror's runs it once more on
another mirror. Each request inside goes through `doGetWith`, which tells
`Health` about unreachable and overloaded mirrors and asks `signIn` for another
session on a 403. A download wraps all that in `reuseOrDownload`, which locks
the file's hash within the client and looks for the file in the folder first.
The two halves meet only in the user's configuration: artifacts of OpenAlex go
through `filetransfer`, which coordinates by files alone, since any number of
processes may share its directory.

### What is hard here

- **Interleaving within a client.** MCP calls run concurrently; Select, signIn
  and lockDownload each release their mutex to do slow work and look at the
  state again afterwards. Each has a channel that its leader closes and others
  wait on: forgetting to close it on one path blocks the client for ever.
- **Interleaving across processes.** The lease, the cache index, `mirrors.json`
  and the session file have no lock but `rename` and `O_EXCL`; every system call
  of one process falls between two of another's.
- **Giving up.** Every call has a context that can end at any point, also when
  the call is the leader that others wait for, and a request cancelled by its
  user looks like a mirror that does not answer.
- **Crash and restart.** A process can die in `unlock` between removing the
  marker and removing the directory, or between linking a file and recording
  it. The session file outlives the configuration it was written under.
- **Time.** Holds that double, fresh-for and sweep intervals, the sign-in
  interval, heartbeats and the time to live of a lease, all of them compared
  with clocks that other steps race against.
- **Liveness.** Holds and refusals are remembered to spare the archive; each
  must also be forgotten, or a client never recovers.

- **Fallbacks.** A search or download asks several sources in turn. What was
  asked for must survive each of them, and a failure must be told from an end.
- **Continuations.** Pages of hits, of locations and of a text are asked for by
  calls that know only what the answer before offered.

`PROJECT.json` lists each hazard at its line with the properties that cover it.

### What makes each component correct

- *Mirror selection*: a retry goes to another mirror; holds are bounded, grow
  while requests fail, and are not caused by users who give up or by an account
  that is refused everywhere; `RetryIn` names a time at which contact is made; a
  mirror that works is found.
- *Mirror state file*: the newer state of each mirror survives concurrent saves.
- *Session*: one sign-in at a time, its result seen by all that waited; the
  request repeated after a sign-in is a different request; the file never gives
  one account's session to another; a refusal is forgotten in time.
- *Archive download*: one transfer per hash and client, reused by the others; no
  deadlock between the nested locks; each download ends.
- *Transfers*: bytes are neither lost nor repeated by a resumption, and a
  resumed answer is of the same file.
- *Artifact transfer*: one fetch of an artifact at a time across processes; a
  crash never blocks an artifact; no file is replaced; what is returned is what
  was fetched.
- *Requests*: a request ends although its server goes quiet at any point, and
  leaves no timer, body or context behind.
- *File statistics*: slots are given back however a worker leaves; no counter is
  older than the cache may keep it.
- *DOI lookup*: the first candidate wins whichever answers first; a DOI is
  reported as absent only if every request answered.
- *Papers, OpenAlex, server*: what was asked for survives each fallback; sources
  are tried in their order, and a failure is reported only after all that may
  serve; offered arguments are accepted and reach every hit once; pages of a
  text follow each other without a gap.
- *Launcher*: what is started was verified, and a launcher with an installed
  binary starts whatever fails.

## 2. The modules

| Module | Models | Composed with |
| --- | --- | --- |
| `SingleFlight` | what Select, signIn and lockDownload each promise: one call leads the work, the others wait, the end of the work releases all of them | instantiated by the three below |
| `MirrorSelector` | `Health`, `Selector`, `onMirrorFrom` | implements `SingleFlight` (`RoundsAreShared`) |
| `SessionSignIn` | `signIn`, `doGetWith` after a 403, the session file, restarts | implements `SingleFlight` (`SignInsAreShared`) |
| `DownloadReuse` | `lockDownload`, `reuseOrDownload` nested in itself, the way from fast download to SciDB | implements `SingleFlight` per hash (`HashIsShared`) |
| `FastDownload` | one download by hash: the loop over collections and servers, the resumable transfer, the downloads left | what `DownloadReuse` calls its fast download |
| `ArtifactLease` | `lock`, `maintainLease`, `expireLease`, one action per system call | |
| `ArtifactDownload` | `Download`, `Cached`, `finalize`, `save` under the lease | extends `ArtifactLease` |
| `MirrorStore` | `mirrors.json` and the half of `Health` that it shares | the times behind `MirrorSelector`'s holds |
| `RequestLimits` | one request with its two timers | what one request of the modules above is |
| `FileStats` | the counters of files: cache, slots, workers, budget | |
| `DOILookup` | one lookup: SciDB, doi.org, searches, records read in batches | what `DownloadReuse` calls the lookup |
| `PaperSearch` | chains of search and details calls over both providers | |
| `PaperDownload` | one coordinated download: the sources and their order | each source is `ArtifactDownload` or `DownloadReuse` |
| `ReadPages` | the body of a structured text, read in pages | |
| `Launcher` | launchers that share a cache | |
| `Parts` | the parts that share no state, side by side | extends `Launcher`, instantiates the other seven above and `MirrorSelector` |
| `ArtifactDownload_proofs`, `SessionSignIn_proofs`, `DownloadReuse_proofs`, `MirrorSelector_proofs`, `FastDownload_proofs`, `FileStats_proofs`, `Launcher_proofs`, `Parts_proofs` | the theorems; those about the lease and `KeptFiles` are in `ArtifactDownload_proofs`, those about the papers, the DOI lookup, `mirrors.json` and refused accounts in `Parts_proofs` | extend their module |
| `KeptFiles` | artifacts and session, side by side: what processes leave each other in files | extends `ArtifactDownload`, instantiates `SessionSignIn` |
| `MC...` | symmetry sets and constant values for TLC; `MCWorksAndRequests` those of `MCPaperDownload` and `MCParts` | extend their module |

Definitions whose comment begins with "Mutant of" are deliberate errors, kept
beside the definition they break. Putting one in the place of the original must
make TLC find the property violated that `PROJECT.json` pairs it with. They are
not part of any specification.

### SingleFlight

`leader` is the call doing the work and `waiting` the calls blocked on it. In
the code they are `Selector.selecting`/`signingIn`/`downloads[hash]`, a channel
that the leader closes, and the calls in a `select` on that channel. The weak
fairness of `Finish` is the promise that the work ends; the refinements inherit
the obligation, so a leader that returns without closing its channel violates
them as a liveness property.

### MirrorSelector

State: `health` is `Health.hosts`; an instant becomes the ticks until it
(`held`) or since it (`okAge`), which is all the code compares. `current`,
`roundAge` and `selecting` are the Selector's fields, `checks` the probes that
the round still waits for. `pc`, `gone`, `first`, `mirror` and `refused` are the
local variables of each `onMirror` call. `mode` is the world: what a mirror does
next.

Each disjunct of `Proceed` is one critical section of `Selector.mu` or
`Health.mu`, or one answer received. `KeepCurrent`, `AwaitRound`, `UseFreshest`,
`Refuse` and `StartRound` are the branches of `Select`, in its order, each
guarded by the failure of those before. `CheckPasses`, `CheckFails` and
`AbandonChecks` are `checkAll`'s receive loop. `EndRound` is the deferred end of
a round. The `Attempt...` actions are the outcomes of the operation, with what
`doGetWith` told `Health` included. `Judge`, `Blame` and `Record` follow the
first failure, a success elsewhere after a refusal, and a success.
`retryIn` is what the error of a call that failed in `Select` says (`Unavailable`):
without contact (`Refuse`) or after a round of failed checks (`EndRound`), whose
length `checkTicks` bounds by `CheckTimeout`. In that time holds run out and other
calls' requests work or fail, so the error may be made when a mirror is free again.

Abstractions: time advances in ticks, and jitter and rounding move the end of a
hold by at most one tick either way (`Jitter`); the failure count stops at the
first count with the longest hold (`FailureCap`), beyond which nothing changes;
Select reads the health of several mirrors at one instant although each read
locks `Health.mu` separately. Not modelled: the reasons shown to the user, the
path without automatic selection (which has no state), and `mirrors.json`.

### SessionSignIn

A cookie is an account and a serial number. `accepted` is what the archive still
takes, `steady` says that it stopped being difficult. `cookie`, `signingIn`,
`sinceSignIn` and `signInErr` are the client's fields under `sessionMu`; `file` is
the session file, with the configured cookie it replaced. `WithoutKey`,
`AlreadyReplaced`, `AwaitSignIn`, `TooSoon` and `LeadSignIn` are the branches of
`signIn` in order. `SignInWorks`/`SignInFails` stand for `signInAnyMirror`, with
every mirror tried. `EndSignIn` is the code under the mutex after it, which reads
the context twice: alive at both looks (`EndInTime`), over at the first
(`EndTooLate`), or over in between (`EndBetween`), which leaves a session that is to
be saved but that the client does not use. `Save` runs outside the mutex. `Restart`
is the end of the process at any point and `NewClient` with the same configuration
or another. Which mirror is signed in on is left out. A tick is shorter than the
sign-in interval (30 seconds) and longer than writing a file of a few hundred bytes,
which is the assumption on which the write outside the lock rests; the guard of
`Tick` states it.

### DownloadReuse

`holder` is `Client.downloads`, `have` the hashes of the files in the folder.
`want`, `phase` and `served` are locals of `downloadArticle`, `downloadPaper`
and `reuseOrDownload`. A DOI goes through `reuseOrDownload` a second time when
its fast download failed, and a DOI without a hash locks the hash it finds on
the SciDB page. `Leave` is the deferred release with what the caller does next,
since no other call can see a state between. Failures of the scan, the page and
the transfer are `Fail`; how a transfer proceeds is `FastDownload`.

### FastDownload

One call of `downloadBookFromArchive`. `path`, `server` and `granted` are its
loop variables, `attempts` and `account` its locals; `answer` remembers what the
API said for each server of each collection. An answer sorts into what the loop
distinguishes: no such index (`AskNone`), the same from every server (`AskStop`),
another failure (`AskFails`), a link (`Grant`). `Validate` and `Invalid` are the
checks before the first request; `missing` counts the links that were a 404, since
what a failed download reports depends on whether they all were. `left` and
`recent` are the archive's own account, which counts a file once, also when the
answer is lost.
Behind a link is the right file, another of the same size, one larger than
allowed, or a 404. `body`, `size`, `file`, `hashed` are the response, the
announced size, the temporary file and the hasher; `CopyBlock`, `WriteFails`,
`CopyFails`, `BodyEnds`, `ReadFails` are the steps of `transfer.copy`, `Resume`
is `transfer.resume`, `Verified` is `transfer.finish`. A block stands for any
number of bytes; it is known by its file and its place, and equal contents stand
for equal MD5. A mirror's failure and its retry are inside one `Ask`, since they
are the subject of `MirrorSelector`. Not modelled: reported progress, the
format, the wording of errors.

### ArtifactLease and ArtifactDownload

The lease is a directory with one marker file named for its owner. `present`
and `marker` are the directory and what is in it, `dirAge` and `age` the
modification times that `expireLease` compares with two minutes, `beat` the
owner's heartbeat timer. One action is one file system call: `TryRename` is the
`Lstat` with which Go's `os.Rename` begins, and `Acquire`/`LoseRace` the system
call; expiry is `ReadDir`, `StatMarker` or `StatDir`, `RemoveStale`,
`RemoveStaleDir`; unlocking is `Unlock`, `UnlockMarker`, `UnlockDir`. `Crash`
can fall between any two. `RenameReplacesEmpty` tells POSIX from Windows.

`ArtifactDownload` runs `Client.Download` under the lease: recheck the cache,
request, transfer, check ownership, link under a free name, save the entry,
unlock. `file` is the content under each name, known by the call that fetched
it; `index` the cache entry; `Meddle` is a user who edits or deletes files, and
`touched` (history) is which linked files that happened to.

### MirrorStore

`file` is `mirrors.json`; `health`, `saved`, `loaded` are the process's `Health`
and what it believes to have saved. `agent` is one of a process's requests:
`Update` is the change under `Health.mu`, which is left before the change is
reported, so that reports overtake each other; `Skip`, `Merge` and `Write` are
`changed`, which holds the store's mutex from the merge to the write. `Restart`
and a `Saved` state that is damaged or of the future come from the file's rules
(`Applies`, `Cut`). Of a mirror's state the times alone are kept. `Update`
advances the clock, since two changes of one process have different times. A time
in the file up to `Skew` ahead of the clock is accepted, and is newer than what the
process learns before that time, so the file keeps it: `FoundAhead` says of a state
that it is still such a one, and `FileCatchesUp` claims nothing of its mirror.

### RequestLimits

`header` and `quiet` are the header timer and what its function stores, `idle`,
`fired`, `stalled` the same of the timer that limits a pause of the body; both
functions store first and cancel afterwards (`TimerCancels`), in a goroutine of
their own. `Answer` is the return of `Do`, `StopTimer` is `timer.Stop`, which
tells whether the function has started; `GoneQuiet`, `Refuse` and `Deliver` are
the three ways out of `send`. `Arrive` is one read of the body, and `AfterRead`
arms the timer for the next pause. How many bytes are read is left out.

### FileStats

`cache` is the list of the cache in order of use, of which an entry that is used or
expired is taken out by its place, `slots` the semaphore shared by calls. A call
looks its hashes up (`Look`), starts workers, hands them hashes (`HandOver`; the
channel has no room, so handing is one step) and closes the channel (`CloseJobs`). A
worker waits for a slot or leaves (`TakeSlot`, `LeaveSlots`), looks into the cache
once more and fetches. Workers of a call are alike, so the first that waits gets the
hash. The archive's page is one outcome.

### DOILookup

`seen` is every candidate so far, `candidates` those of this search that no batch
has taken, `batch` the records being read and `reading` what has become of each.
SciDB and doi.org have one action per outcome (`SciDBAnswers`, `SciDBFails`,
`DOIOrgAnswers`, `DOIOrgFails`, `DOIOrgDiffers`). The readers write to buffered
channels, so they end on their own (`ReaderEnds`), while the lookup takes the
results in the candidates' order (`TakeError`, `TakeOther`, `TakeMatch`). `failure`
is the error that the lookup remembers; `unanswered` is history. Which records carry
the DOI (`holds`) is chosen by the environment.

### PaperSearch

`args` is the call that runs, `wanted` the first of its chain; `next` is what the
answer offers. `got` has a page per answer, which says who it is of, after which
hit it begins and where it ends (`Shows` tells the hits that it has).
`Begin` chooses between the archive's own search and the coordinated one as
`paper_service.go` does; `MayFallBack` and the actions after it are `Search`.
A hit is a number, and a filter is told by who understands it (`terms`): both,
one, a value that only OpenAlex knows, or a mixture that is refused. A page of
the archive is fixed in size and cut to the limit of the call. `DetailsAnswers`
pages the locations of a work.

### PaperDownload

`Normal`, `Refused`, `ArchiveOnly` and `Plain` are the checks and choices before
anything is asked; `Candidates` is the list that `downloadCandidates` builds:
the hosted file, then the best open copy (`Best`, by the order `Before` of the
locations) and the best of those with another address. The
call tries them in order (`Fetched`, `FetchFails`) and then the archive
(`Fallback`). How a source failed is kept as far as the code tells failures
apart: a `Terminal` one ends the call.

### ReadPages

The first half is `extractTEI` on a stream of tokens: elements are
opened and closed, and each piece of text is known by its place. `body` is the
text that belongs to the body by the rule the comment states, `paragraphs` what
the code collects. The second half is the paging: `cursor` is the continuation,
`room` the characters left, `TakePiece` and `EndPage` the loop, `Change` a work
that OpenAlex merges or gives a new text, here the old one without its first
paragraph, between two calls.

### Launcher

`meta` and `binary` are the files of the cache. The actions of a launcher are
the asynchronous steps of `lib/launcher.js`, between which other launchers run.
A digest is the content it is the digest of. Windows refuses a file that another
launcher is replacing; `entitled` says that a launcher had a recorded binary
from its start on and was refused nothing.

### Parts

The parts share no variable. `part` chooses one in the initial state and the
others stand still, so one run checks nine small instances, among them
`MirrorSelector` in a world where every mirror refuses the account; that is the case
in which nobody may be blamed, and who may be blamed after another mirror answered is
checked by `mirror_safety`, where mirrors do anything. The fairness
is that of `RequestLimits`, restricted to its part. `MCParts` is the instance that
TLC checks.

`KeptFiles` puts the artifacts and the session together in the same way, for the
safety of what processes leave each other in files: calls of `ArtifactDownload` are
requests of `SessionSignIn` when `kept` is "session". Nothing fair is needed there.

## 3. The runs

All take less than five minutes with two workers. Every property of a passing
run has a mutant in `PROJECT.json`.

| Run | Instance | Shows |
| --- | --- | --- |
| `mirror_safety` | 2 mirrors, 2 calls, holds 1 to 3 ticks, a Retry-After of 5 | `RetryGoesElsewhere`, `RetryInIsKept`, `OnlySuccessForgives`, `GivingUpHoldsNobody` |
| `mirror_unavailable` | 2 mirrors, 1 call, the code's times in ticks of 5 seconds | a violation, see section 5 |
| `mirror_rounds` | 2 mirrors, 2 calls, holds of one tick | rounds implement `SingleFlight`; `WorkingMirrorIsFound` |
| `lease_long_wait` | 3 calls, waits without limit | a violation, see section 5 |
| `kept_files` | 2 downloads, TTL 3, waits up to 2, 3 names; 2 requests with a session file, restarts with either of two accounts' keys, with or without a third account's cookie | `MutualExclusion`, `HolderOwnsLease`, `NoNeedlessFetch`, `ReturnsFetchedFile`; `SessionIsOfThisAccount`, `SavedSessionIsCurrent` |
| `artifact_recovery` | 2 calls, 2 names, waits without limit, Windows rename | `EntryIsIntact` although leases are lost; `LeaseIsReached` whoever crashed |
| `session_recovery` | 2 requests, no cookie, a key or none | `RetrySendsAnotherCookie`; sign-ins implement `SingleFlight`; `SessionRecovers` |
| `fast_download` | 2 collections of 3 servers, 2 resumptions, files of 2 blocks or 3 | `DeliversTheFile`, `TransferIsContinuous`, `FailsAfterTryingAll`, `MissingMeansMissing`, `AllowanceIsExact`, `DownloadEnds` |
| `download_reuse` | 3 downloads by DOI, 2 hashes | `NoNeedlessTransfer`, hashes are shared as `SingleFlight`, `DownloadsEnd` |
| `parts` | nine instances, see below | `AnswersMatchFilters`, `NextArgsLoseNothing` (search and details); `SelectionIsKept`, `SourcesInOrder` (download); `TextIsReadOnce` (reading); `FirstMatchWins`, `MissIsConclusive` (DOI lookup); `SlotsAreReturned`, `ServesFreshStats` (statistics); `RequestsEnd` (a request); `FileCatchesUp` (`mirrors.json`); `OnlyVerifiedRuns`, `CachedStarts` (launcher); `AccountTroubleHoldsNobody` (mirrors that all refuse) |
| `slow_host` | the works and requests of `parts` | a violation, see section 5 |
| `newer_state` | 2 processes, 1 mirror, 3 moments | a violation, see section 5 |

### Why the bounds are enough

- *Mirrors and calls.* The code treats mirrors alike and excludes at most one,
  so two give a first and a second choice, an excluded one and one that is all
  that is left. Two calls give a leader and a waiter with different exclusions.
- *Ticks.* Each instance lets a hold, the sweep interval and the fresh-for time
  end in any order relative to each other: a hold shorter than the sweep
  interval and one longer than it. A Retry-After above `MaxHold` is one that
  must be capped. In `mirror_unavailable` a tick is `checkTimeout`, 5 seconds, and
  the other times are those of the code: holds of 15 seconds to 5 minutes, sweeps
  every 30 seconds, so that the trace is one the program can take.
- *Lease.* With short waits the theorems cover every number of calls; two of
  them, of which one stalls or crashes in every place while the other expires
  it and acquires, show what happens under the lease. `lease_long_wait` has
  three: one that holds, one that waited too long and one that expires it.
- *Names.* One is taken by the user's file, and each of two calls needs one;
  with two names a call can run out, which is `Fail`. In `artifact_recovery` both
  calls may come to link, after one lost its lease to the other, with a file of the
  user's changed or deleted before, between or after.
- *Session.* Serial numbers are reused when nothing refers to them any more, and a
  sign-in waits when all are taken. What two requests do to each other needs one
  account and three numbers, so that a refused cookie can be replaced twice before
  its call looks (`session_recovery`); a restart ends both, with a key or none.
  Whose session the file gives needs several accounts (`kept_files`): it is read with
  the key it was saved for or another, and with no cookie, with the one it replaced or
  with another. Two numbers are enough there: the session in use and the one saved.
- *Fast download.* Two collections and three servers give each place in the
  loops that the code distinguishes: the first of both, the first of a later
  collection, a server in the middle, the last. A transfer can break between
  and before blocks twice, the number that `maxResumes` is; the largest file
  has one block more than `MaxBlocks`. An allowance of one is the boundary.
- *Downloads.* Three calls are a holder and two waiters, of which one might be
  forgotten. A download by hash behaves as the first half of one by DOI, so the
  instance has DOIs alone: of one hash, or of none, which finds either hash.

- *Search and details.* Five listable hits, pages of two and three, and no, three
  or five hits make a last page that is full, cut, or beyond what may be listed;
  the archive's page is shorter than a caller's limit, equal to it, and absent.
- *Download.* Three works: one with a hosted file and four copies, of which two
  share an address, one is of another DOI and one is left over after the two
  best; the same without any copy; a thesis without a DOI. The requests combine
  every option, the wrong combinations included.
- *Reading.* Twelve tokens nest a paragraph, a heading and front matter inside a
  body with text of three characters; the limits are one character and four,
  which cuts a paragraph or leaves its rest for the next page.
- *DOI lookup.* Four records, at most three read, two at once: a batch that is
  full, one that is not, and a candidate too many. The pages have a record
  twice, out of order, and none.
- *Statistics.* Two calls with two workers each, one slot, a cache of one entry:
  every worker can be in another's way. A hash is asked for twice in one call.
- *A request.* Two pieces of a body: a pause before, between and after.
- *`mirrors.json`.* One process with two requests for `FileCatchesUp`, since what
  the two write is merged within the process; times to live and holds are two ticks
  and the interval of saves is three, so that a hold can begin and end while a
  success alone would not be saved; a saved state is of the past, ahead of the clock
  within `Skew` or beyond it, or damaged. `newer_state` has the two processes that a
  lost update needs.
- *Launcher.* Two launchers and two releases; each may start any number of times.
- *Mirrors that refuse.* Two callers, as above, and every answer a 403.

Deadlock is not checked in the instances where calls are made once and may all
end (lease, artifacts, downloads, `parts`), nor for the others, where time passes in
every state and a deadlock cannot occur; what must not get stuck is stated as a
liveness property.

### Fairness

`Tick`: time passes. `Proceed(c)`, `Strive(c)`, `Work(c)`: a goroutine that can
run does, polling goes on, and whatever it waits for ends, since probes have
`checkTimeout`, sign-ins and requests the header and idle timers, and transfers
stall out. `Client` of `RequestLimits`: its timers fire and its goroutines run,
and nothing is assumed of the server, which may stop at any point.
`Heartbeat(c)`, `FinishUnlock(c)`: a live process runs its timers and deferred
functions. No fairness is assumed of users (starting, giving up, deleting,
changing keys), of crashes, nor of how mirrors behave: weak fairness of a
disjunction leaves open which outcome a request has.
`WorkingMirrorIsFound` and `SessionRecovers` have the good behaviour of the
archive as their premise. `LeaseIsReached` has finitely many calls, each once;
whether an endless stream of new calls can starve one that polls is not claimed,
and the code does not prevent it.

## 4. What is proved

Every theorem is about the specification that TLC checks on the instances above.
It assumes what the `ASSUME`s of the modules say, which TLC evaluates in the runs,
and what it states as a hypothesis of its own.

### The lease and the artifacts

`ArtifactDownload_proofs` proves of the lease, for any set of calls, any heartbeat
interval, time to live and platform, under `ShortWaits == MaxWait + Beat <= TTL`:

- `TypeIsKept`: `LeaseSpec => []LeaseTypeOK`;
- `HolderKeepsLease`: `LeaseSpec => []HolderOwnsLease`;
- `OneHolder`: `LeaseSpec => []MutualExclusion`.

`MutualExclusion` alone is not inductive: a state with one holder and a stale
marker steps to one with none or two. The inductive invariant `LeaseInv` adds

- `FreshMarkers`: while a call waits its marker is no older than `MaxWait`, and
  while it holds no older than `MaxWait` plus the time since its last beat. The
  marker's age starts when the call begins to *wait*, and acquiring renames it
  as it is, which is why the bound has `MaxWait` in it. With `ShortWaits` a
  holder's marker is never stale;
- `BeatsOnlyWhileHolding` and `MarkerWasAcquired`, which tie the timer and the
  marker in place to calls that acquired the lease;
- `SeenIsPast`: what a call read in the directory is the marker of a call that
  had acquired, and once found stale, of one that no longer holds. A marker is
  removed by name, and a call is never a holder twice, so a late removal finds
  either that dead marker or nothing.

The proof has one step per action of `LeaseNext`. The assumptions are those of
`ArtifactLease` (`NoCallAssumption`, `TimeAssumption`, `PlatformAssumption`),
which TLC evaluates in every run of the lease.

`ShortWaits` is needed: run `lease_long_wait` shows what happens without it. The
times of the code are 15 seconds for `Beat` and two minutes for `TTL`, so the
theorems speak of contexts that end within 105 seconds of `lock`'s start.

Of the downloads under it, for any calls and file names:

- `ArtifactTypeIsKept`: `Spec => []TypeOK`;
- `TheEntryIsIntact`: `Spec => []EntryIsIntact`;
- `ReturnedWasFetched`: `Spec => ReturnsFetchedFile`;
- `OneFetch`: under `ShortWaits`, `Spec => []NoNeedlessFetch`.

The first three hold without any assumption on times. A lease that was lost to
another call costs a second fetch, never a file: `FileInv` needs to know
that a call which gets the lease starts with the look into the cache
(`StartsWithRecheck`), and that it records the file it linked
(`SavesItsName`). `EntryIsIntact` is about the time between the two: a call that
stalls after its link, loses its lease and records late makes the entry name its own
file, which the other call, and any number after it, must have left alone
(`EntriesAreKept` says it of the call that is about to record, too). `OneFetch` is
where the lease matters. It takes `LeaseInv`, of which every step of a download is a
step or a stutter, and adds `FetchesWhatIsMissing`: what a call is about to fetch, the
folder and the index do not have.

### The session

`SessionSignIn_proofs` proves, for any callers, accounts and configurations:

- `SessionTypeIsKept`: `Spec => []TypeOK`;
- `NoOtherAccount`: `Acts => []SessionIsOfThisAccount`, where `Acts` is `Spec`
  without its fairness;
- `RetryDiffers`: `Spec => RetrySendsAnotherCookie`;
- `SavesTheCurrent`: `Acts => SavedSessionIsCurrent`;
- `SignInsAreOneAtATime`: `Spec` implements `SingleFlight` step by step.

`KeptFiles` has no fairness, and whatever its requests do is a behaviour of `Acts`
(`SessionBehaves`). `KeptSessionIsOwn` and `KeptSessionIsCurrent`, at the end of
`ArtifactDownload_proofs`, carry the two properties over to it.

The session of the moment may come from the configuration, a sign-in or the file of
an earlier process with another configuration. So `SessionInv` follows a session
from the answer of the sign-in to the file and back: it was issued for the
configured key (`SessionsAreOfThisKey`), the file's is of the key written beside it
(`FileIsOfItsKey`), a new one is none that a request was refused with
(`NewIsUnused`), and a request that is about to be repeated knows another than the
one it sent (`RepeatsWithAnother`). `SavedSessionIsCurrent` speaks of a write
outside the lock, and excepts the call whose context ended between the two looks at
the end of its sign-in: what it saves is a session of the same key that the client
never had, and it may overwrite a newer one (`UnusedIsAbandoned` says that such a
call was given up, so that what it repeats does not matter). The next process then
starts with a session of the right account all the same. For every other call it
rests on `SavesInTime`: until the call that signed in has saved, the interval
between two sign-ins has not passed. That a write takes less than the interval is an
assumption of the model (the guard of `Tick`), not of the proof.

### Downloads of one hash

`DownloadReuse_proofs` proves, for any set of downloads and hashes and any tasks:

- `ReuseTypeIsKept`: `Spec => []TypeOK`;
- `OneTransferPerHash`: `Spec => []NoNeedlessTransfer`;
- `NoCircles`: `Spec => []NobodyHoldsAndWaits`: a download that has locked a hash
  waits for none, so downloads cannot wait for each other in a circle;
- `HashesAreShared`: `Spec` implements `SingleFlight` for every hash, step by step.

Neither of the second and the third is inductive. `ReuseInv` adds where a call
may hold a lock
(`LocksOnlyToWork`), that it holds the one it wants wherever it works
(`WorksUnderLock`), that what it fetches is not in the folder
(`FetchesWhatIsMissing`), and which hash a call wants on its way from the fast
servers to SciDB (`WantsItsHash`). The distinction that carries the proof is the
one in `Works`: a page that is read to *learn* the hash is read without a lock,
one that is read for a known hash is read under it.

The three refinements (here, of the sign-ins, and `RoundsAreOneAtATime` of the
rounds of checks) are proved one action at a time: each step of the code's model is
a step of `SingleFlight` or leaves it as it is, by the type invariant alone. They
are the safety half; that the work ends is `WF_vars(Finish)`, which TLC checks.

### Mirrors

`MirrorSelector_proofs` proves, for any mirrors, calls, intervals and modes of
the world that the assumptions of `MirrorSelector` allow:

- `MirrorTypeIsKept`: `Spec => []TypeOK`;
- `HoldsEnd`: `Spec => []HoldsAreBounded`;
- `RetryIsElsewhere`: `Spec => []RetryGoesElsewhere`;
- `SuccessForgives`: `Spec => OnlySuccessForgives`;
- `CancelledHoldNobody`: `Spec => GivingUpHoldsNobody`;
- `RetryInIsTrue`: `Spec => RetryInIsKept`;
- `RoundsAreOneAtATime`: `Spec` implements `SingleFlight` step by step.

`RetryGoesElsewhere` speaks of a call at its second attempt, which gets its
mirror from a round that may have been another call's. `MirrorInv` follows the
excluded mirror through the round: it is not among those that are checked
(`ChecksSpareExcluded`), it is not the winner (`WinnerIsAnother`), a call that
leaves Select has a mirror (`RunsOnMirror`), and one that knows of a refusal
knows whose (`RefusedBefore`). The bound of the holds has to be proved with the
types, since a hold is what `HoldFor` of the count of failures gives, and the
count stops at `FailureCap`; `FailedKeeps` says what one failure does to the
mirrors, and is used by each of the four actions that report one. The
other action properties follow from the same invariant by asking, of every step, whose
failure or success it records (`WhoChangesHealth`) and which steps leave a call
without a mirror (`WhoIsLeft`). `GivingUpHoldsNobody` names the call that takes the
step, so that no other call's context can stand in for its own. `RetryInIsKept` covers
both errors of `Select`: the age of the last round is below the sweep interval when
the call is refused, and zero when a round has failed, so what it is told is the least
of a finite set of times ahead (`RetryInIsFirst`), at which a sweep is due or a hold
ends. That nothing makes contact *earlier* is proved for the case that no mirror is
free when the error is made. After a round one may be free, and then it is not so: run
`mirror_unavailable`, section 5.

### Statistics

`FileStats_proofs` proves `SlotsComeBack`, `Spec => []SlotsAreReturned`, for any
calls, workers and budgets; the only hypothesis, which the theorem states, is
that the number of slots is natural. The counter is not enough to know that it
will be zero: `StatsInv` says
that it is the cardinality of `Busy`, the set of workers at work under a slot,
and that a call is over only when its workers are. The lemmas `SlotTaken` and
`SlotReturned` do the counting, once each, for the five ways a worker goes on.

`AnswersStayFresh`, `Spec => []ServesFreshStats`, needs more of the constants
(`FreshAssumption`: a time to live and lists of hashes) and of the cache:
`FreshInv` says that it has an entry for a hash once and never more than `Capacity`
(`EachHashOnce`, `CacheIsBounded`), through removals in the middle and cuts at the
end, and that an entry's age at its use is what is compared with `TTL`.
`Parts_proofs` carries both over to the composition (`SlotsAreFree`,
`StatsAreFresh`), by an `INSTANCE` of `FileStats_proofs` and the lemma that a
behaviour of `Parts` is one of `FileStats`.

### One download by hash

`FastDownload_proofs` proves, for any collections, servers, resumptions, limit of
the size and allowance:

- `FastTypeIsKept`: `Spec => []TypeOK`, which bounds the resumptions and the account;
- `TheFileIsDelivered`: `Spec => []DeliversTheFile`;
- `NoBlockIsLost`: `Spec => []TransferIsContinuous`;
- `AllAreTried`: `Spec => []FailsAfterTryingAll`;
- `MissingIsMissing`: `Spec => []MissingMeansMissing`;
- `AllowanceIsCounted`: `Spec => []AllowanceIsExact`.

`FastInv` has four parts, which are proved one after the other. The transfer: while
it may go on or succeed, the hash is of what is in the file, and the body goes on
where the file ends (`HashIsOfFile`, `BodyContinues`), which a resumption has to
establish anew. The account: it describes the archive before the file was counted
(`AccountIsOfBefore`), so that what is reported is one less unless the file was
counted before. The loops: servers are asked in order and what was passed over was
closed (`AskedInOrder`, `NothingPassedOver`). An index that the first server
does not have ends the download. At a later server it ends the collection, and
another collection is asked only if this one gave a link, which the loop remembers
in `granted` (`GrantedIsLink`, `NoLinkWithout`). The verdict: attempts are
counted as missing one by one, and any other failure has left an attempt that tells
(`MissingIsCounted`, `OtherAnswersAreKept`).

### Papers

`Parts_proofs` proves about searches, downloads and readings, for any works, numbers
of hits, sizes of pages, texts and options:

- `SelectionIsSafe`: `PartsSpec => []SelectionIsKept`;
- `SourcesAreInOrder`: `PartsSpec => []SourcesInOrder`;
- `EveryAnswerMatches`: `PartsSpec => []AnswersMatchFilters`;
- `NothingIsLost`: `PartsSpec => []NextArgsLoseNothing`;
- `TextIsRead`: `PartsSpec => []TextIsReadOnce`.

*Download* (`DownloadInv`). What OpenAlex is asked for was accepted and may be
served by it (`FoundForRequest`); each candidate fits the request (`CandidatesFit`,
which `CandidatesAreFit` shows of the list that is built), and so does what the
archive is asked for (`ArchiveFits`). For the order, no candidate leaves the list
but as a failure (`NoneIsSkipped`), and a call that fails has asked the archive if
that may serve it (`ArchiveIsAsked`). That there *is* a best copy (`BestIsOne`)
needs that the locations of a work are finitely ranked and have names in an order,
which `WorkAssumption` says by letting names be naturals.

*Search* (`SearchInv`). Arguments that are offered are those of the first call,
further on (`CarriesOn`), and they go on where the pages end and will not be refused
(`GoesOn`). With the pages in their order (`PagesInOrder`) and of a provider that may
answer (`PagesMatch`, from `AskedRightly`), everything listed up to there is
delivered (`Covered`), and at the end of the chain everything that is listed
(`EndsAtLast`). `SearchAssumption` has the sizes of pages positive.

*Reading* (`ReadInv`). The block that is read is the outermost that is open
(`BlockIsOutermost`), so text is of the body just when that block is no heading
(`BodyIsRead`). The text is laid out in paragraphs: some `start` says where each
begins in the body (`Lays`), and what is in none of them yet is the block's text.
What a chain has read is the body up to the cursor, counted from the start of the
cursor's paragraph (`ReadsTo`), as long as the text is the one that the cursor is of
(`Current`). The witness `start` takes the place of an induction over the
paragraphs. `ReadAssumption` has positive limits.

### DOI lookup, account, `mirrors.json`

`Parts_proofs` proves as well:

- `FirstMatchIsReturned`: `PartsSpec => []FirstMatchWins`;
- `MissesAreConclusive`: `PartsSpec => []MissIsConclusive`;
- `AccountHoldsNobody`: `PartsSpec => []AccountTroubleHoldsNobody`;
- `TheFileCatchesUp`: `PartsSpec => []FileCatchesUp`.

*Lookup* (`LookupInv`). Candidates are seen once, and what is left of them is, in
their order, the batch and those that no batch has taken (`LeftInOrder`); whatever
was taken was no match, and its error is remembered (`TakenAreNoMatch`). So the head
of the batch is the first that may match, whichever reader ended first, and a lookup
that ends without a failure has read them all.

*Account* (`AccountInv`). Where every mirror refuses, no attempt works, so no call
ever has another mirror's success to blame a mirror with.

*`mirrors.json`* (`StoreInv`). The file catches up because nothing newer is lost on
the way to it: what is known of a mirror is never older than the file that was read
or what is being written (`MemoryIsNewest`), what is believed to be saved is in the
file (`SavedIsInFile`), one request merges at a time (`OneMerges`, the store's
mutex), and what it writes has all that is known but for changes still to be
reported (`WritesAll`). Then whatever is known is in the file or on its way there:
being written, to be reported, or with a process that is behind because a write
failed (`OnItsWay`). Reports overtake each other, which is why `ToReport` asks for a
report of the *last* change. A state that was found ahead of the clock is followed
from the file into memory and back (`Ahead`, `FromAhead`, `KeepsAhead`, all in
`TimesAreSound`): a change made before its time does not replace it, and once
another state has, none comes back. `StoreAssumption` has one process, since with
two the newer state may be lost (run `newer_state`), and states that are dropped no
sooner than a hold may last, as `staleAfter` (10 minutes) and `maxHold` (5 minutes)
are. It allows the file any times at first: past, within `Skew` of the clock, and
beyond.

### The launcher

`Launcher_proofs` proves, for any launchers and releases (`ReleaseAssumption`,
`NoneAssumption`):

- `VerifiedRuns`: `Spec => []OnlyVerifiedRuns`;
- `RecordedStarts`: `Spec => []CachedStarts`.

Neither follows from what one launcher did. What `current.json` names was placed
by any of them, so `LauncherInv` says that whatever is about to be placed was
verified (`PlacesVerified`), that releases are known in their order
(`NoneFromFuture`: what is in the cache is no newer than what a launcher is told
of afterwards), that the recorded binary stays usable while others install beside
it (`RecordedIsUsable`), and that a launcher that is entitled to start has found
a binary at each step (`EntitledHasBinary`).

### What is only model-checked

Liveness, which is out of the prover's reach: `WorkingMirrorIsFound`,
`LeaseIsReached`, `SessionRecovers`, `DownloadEnds`, `DownloadsEnd`, `RequestsEnd`,
and of `RoundsAreShared`, `SignInsAreShared` and `HashIsShared` the fairness, that
whoever leads ends. `RequestLimits` is checked for nothing but that, and has no
theorem. Every other property of a passing run is stated by a theorem.

## 5. Where code and documents disagree

Four runs show it:

- `lease_long_wait`: `Download`'s comment says that it serializes the same
  artifact across processes. The marker keeps the time at which the call began
  to wait, and the first beat comes 15 seconds after it acquires, so a call that
  waited more than two minutes holds the lease with a stale marker. A third call
  that waits removes it, and two calls fetch at once. `PromptSpec` restricts the
  run to calls that poll whenever time passes, as the code does, so that the
  trace does not depend on a process being suspended.
- `slow_host`: `HOW-IT-WORKS.md` lists the sources of an ordinary DOI request in
  order and says that local I/O errors and cancellation stop it.
  `terminalDownloadError` also stops on `context.DeadlineExceeded`. The error of
  a transport whose `ResponseHeaderTimeout` ended is that error too, so one slow
  host keeps the request from the other copies and the archive.
- `newer_state`: `store.go` says that of what two processes know the newer state
  of each mirror wins. Two processes that read the file before either replaces
  it lose the newer state. The cost is a check, and the file is read only at the
  start of a process.

- `mirror_unavailable`: `RetryIn` is documented as "how long until a call would
  contact a mirror again". It is the time to the next sweep or to the end of a hold
  that lies ahead. During a round of checks, which may last `checkTimeout`, the hold
  of a mirror can run out that the round did not check, or whose check failed before
  its end, when a failure does not lengthen the hold. That mirror is free, a call
  would contact it at once, and the user is sent away for up to 30 seconds. The cost
  is that wait.

Others were met while modelling. The models follow the code, and no run lists
them:

- With every mirror set aside they "are checked at most once every 30 seconds",
  but a sweep whose leader gives up does not set `lastRound`, so the next call
  sweeps again at once (`EndRound`).
- A call that hits a failing mirror "is retried once on another", but
  `onMirrorFrom` looks whether the mirror is on hold *now*; a concurrent success
  on it in between ends the hold, and the failing call is not retried (`Judge`).
- A DOI that is a preprint's, of a work grouped with its publication, is served
  structured text from the work's hosted file, or the location that was named,
  whichever version that is; `SelectionIsKept` claims the DOI for PDFs without a
  named location alone.
- Arguments that an archive answer offers (`provider` is then `anna`) go to the
  archive's own search, whose answer offers none for the page after; a page of
  the archive is cut to the caller's limit, and the rest of it is on no later
  page. `NextArgsLoseNothing` claims completeness of OpenAlex alone.
- A time in `mirrors.json` up to a minute ahead of the clock is newer than what
  happens in that minute, so a merge keeps it, and the file misses a hold or its
  end. `FileCatchesUp` excepts such a state as long as it is in the file.
- A sign-in whose context ends between the two looks at it (`session.go:85-86`) is
  saved but not adopted, and its caller is told to repeat with a session that the
  client does not have. The file may then hold another session than the client, or
  one older than a sign-in that another call made meanwhile (`EndBetween`).
- `send` reports a quiet server if the timer could not be stopped *and* has stored that
  it fired. If the function has started and stored nothing, the response is delivered
  with a context that is about to be cancelled, and its reader is told of a
  cancellation, which the comment (`request_limits.go:45-47`) says the caller can tell
  apart (`Deliver`). `RequestsEnd` claims that the caller is told, not what.
- A launcher that installs slowly sets `current.json` back to the release it was
  told of, when another has installed a newer one meanwhile.

## 6. Not modelled

Parsing and matching, origins, the environment, the rendering of results and the
scripts keep no state that calls share, and a model of them would restate their
text; so do single requests with a parse (metadata search, an archive record's
details, the account page). `lazy_archive.go` builds a client once under a
mutex. Response bytes (limits, decoding, the magic numbers of a PDF) and the
HTTP client of `filetransfer` are not modelled, nor which mirror is signed in on, nor
lists of more than 20 values in one filter. What *three* calls may do to one lease is
covered by the theorems, and by TLC only in `lease_long_wait`.
`PROJECT.json` lists every component with what it leaves out.

What is left is to prove more, most important first:

1. `RequestLimits`: what a request that has ended leaves behind (the safety half of
   `RequestsEnd`), with the invariant that ties the timers to the contexts.
2. `MirrorStore` with several processes: that a state in the file is one that some
   process knew, and that a hold in it ends.
3. `DownloadReuse` and `FastDownload` together: that a download by hash, as
   `DownloadReuse` sees it, is what `FastDownload` does.
