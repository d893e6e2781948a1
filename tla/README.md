# Omarchy Vault in TLA+

Omarchy Vault turns a Linux PC into a private file vault: one daemon, `vaultd`,
serves a dashboard on localhost, opens short-lived links for phones on the local
network, keeps accounts, watches the chosen drive and supervises SFTPGo, the
file service. This directory models what of that is concurrent, durable or has
to end by itself, and the decisions that must not be wrong (which drive may be
used, which keys are free), checks it with TLC on small instances, and proves
the main results with TLAPS for all values of the constants.

`PROJECT.json` is the index: components, runs, mutants, the source lines each
definition models, findings, hazards and theorems.

## The system

| Component | State | Operations | Talks to |
|---|---|---|---|
| Transfer store (`internal/transfer/store.go`) | table `transfer_sessions` in SQLite | Create, Lookup, Active, Revoke, Reserve, Release, Remaining, Record, Prune; each is one statement | every part below that knows links |
| Uploads (`transfer/server.go`: `receive`, `saveOne`) | one goroutine per request; `inflight` | lookup, Reserve, room check, Save, Record or Release | store, Save, listener (`inflight`) |
| Saving (`transfer/save.go`) | partial and final names in the folder | temporary file, sync, `renameat2(NOREPLACE)`, else `linkat` + `unlink` | the filesystem, other programs |
| Downloads, shares (`transfer/serve_download.go`) | map `counted`, map `unlocked`, `inflight` | usable, send, count, pruneGrants | store, listener |
| Listener (`transfer/server.go`: `Ensure`, `StopIfIdle`, `Stop`, `Run`) | `ln`, `srv`, `addr` under `mu`; the socket | start, ask, stop, shut down, tick | API handlers that create and stop links, auto-off |
| Auto-off, power (`api/autooff.go`, `cmd/vaultd`) | time of last use | idle, PowerOff, start | listener, store |
| Accounts (`internal/users`, `api/users_handlers.go`) | list in memory under `mu`, `users.json` | Create, Update, Delete, save, open | login, file service |
| Login, sessions, codes (`internal/auth/local.go`, `api/auth_handlers.go`, `api/users_handlers.go`) | sessions, codes in memory; two-factor fields of an account | login, code, redeem, set up and remove the second factor, change and reset a password, sign out | accounts, limiter |
| Limits (`internal/auth/limiter.go`, `ipLimiter`) | failures and lockouts, token buckets | Blocked, Fail, Succeed, allow | login, phone pages |
| Storage (`internal/storage`, `api/storage_handlers.go`, `api/files_proxy.go`) | config, data link, the drive | adopt, forget, inspect, monitor | drives, file service |
| File service (`internal/files/manager.go`) | SFTPGo process, `want`, `wake` | SetWanted, supervise | storage |
| File service accounts (`internal/files/sync.go`, `client.go`) | SFTPGo's users and folders | Sync: list, ensure folder, put, remove | accounts, SFTPGo's API |
| Drives and health (`internal/disks`, `internal/health`) | a cached inventory | scan, build, classify | storage |
| Shortcuts (`internal/shortcuts`, `api/shortcut_handlers.go`, `vaultctl shortcuts`) | `hyprland.conf` or `.lua`, Vault's own file beside it, the running Hyprland | check, install, remove, reload | the user, who edits the same files |
| Config, control socket, other commands of `vaultctl`, dashboard, plugin | a file, a socket | load, pages, commands | the API |

### What is hard here

* **Interleaving.** Every HTTP request is a goroutine. The store makes single
  statements atomic and nothing else: a handler looks a link up, reserves,
  measures, copies and records in separate steps. The same holds for
  `usable`/`count`, `StopIfIdle`, `idle`, a sign-in that works on a copy of an
  account, a sync that works on a copy of the list, and an installation of
  shortcuts that writes back a text it read before.
* **Cancellation.** A request's context dies with its phone, and with it every
  statement that is still to be given that context, the clean-up included.
* **Crash and restart.** Links, files and accounts are durable; the listener,
  `inflight`, `counted`, sessions, codes and lockouts are not.
* **Ending.** The phone port must close, and Vault must turn itself off, by
  themselves: `inflight` must reach zero again on every path.
* **Never replacing a file.** Others use the same folder, and not every
  filesystem has `renameat2(RENAME_NOREPLACE)`.
* **The world outside.** Drives are mounted and unmounted, `lsblk` and `findmnt`
  each show a part of what the kernel knows, the user edits Hyprland's files, and
  SFTPGo has an admin of its own.

### What makes each component correct

* A link never lets more files or downloads happen than its limit; a stopped
  link starts nothing more; what failed or crashed never lets somebody exceed it.
* Byte limit and disk reserve hold for a phone that sends one file after the other,
  as long as sizes can be recorded and the free space can be read.
* A saved file appears whole, under a free name, once; no file is ever replaced.
* A phone and file count once, and can be resumed.
* A link whose QR code was shown can be reached; the port closes when no link is left.
* There is always an active admin; memory and `users.json` agree; concurrent
  changes of different accounts both survive.
* A session ends with the account it came from; a login code and a code of the
  authenticator work once; the second factor asks for a secret some phone has; a
  lockout is as long as its failures ask for; nobody is signed out without a reason.
* SFTPGo's users are Vault's accounts after a sync that nothing disturbed, as far as
  its one page of users shows them; users Vault did not create are left alone.
* Files and the data link end up where the drive and the configuration say; the
  supervisor misses no change of mind, and leaves no process behind.
* A drive of the system is never offered; the folder is made on the drive that was
  named, and nowhere else; what was adopted is found ready.
* No key of the user is taken and no line of the user (empty ones apart) is lost;
  saved shortcuts are loaded, removed ones are gone.

## The modules

| Module | Models | State and actions |
|---|---|---|
| `TransferStore` | one row of `transfer_sessions` | operators only: a statement is `Reserved(s)`, guarded by `CanReserve(s)`, and so on. Time is the flag `expired`; tokens are the link's identity |
| `LinkBudget` | abstract: what a link promises | a link has slots: `Take`, `Complete`, `GiveBack`, `Lose`, `Stop` |
| `Upload` | `receive`/`saveOne` | `req[r].pc` is the place of a request between two calls others can see; one action per call, success and failure apart. A part takes its room of the drive unit by unit (`wrote`); `taken` is what a link put there, `store.bytes` what was recorded |
| `SafeFolder` | abstract: what saving promises | a file appears in one step under a free name, or does not |
| `Publish` | `Save`/`publish`, system call by system call | `dir` (what a name shows), `partial`, `stuck` (partial files the drive refused to remove), and per upload the place in the loop over candidate names; `fs` is which calls the filesystem has |
| `Download` | `usable`/`send`/`count` | as `Upload`, with the map `counted` |
| `Listener` | `Ensure`, `StopIfIdle`, `Stop`, `Run`, `issue`, stop handlers, `RunAutoOff`, power off, start | `open` is `Server.ln # nil`, `bound` the socket itself: between `Stop`'s unlock and `Shutdown` they differ. Every caller of `StopIfIdle` has its own place. The end of vaultd is three steps that others come between (`ending`): the context is cancelled (`PowerOff`, `AutoOff`), `Run` stops the listener without a question (`LastStop`), the process goes (`Off`, at any time if it is killed) |
| `Users` | `users.Store` and the handlers that call it | `users` (the list in memory), `file`, the lock `mu`, and per request its place: asked, saving, renamed. An account is a role and a disabled flag |
| `FilesSync` | `Sync`, `Desired` and the places that start it; EXTENDS `Users` | `remote` is SFTPGo's user table. `sync[s]` is one sync: what it copied (`want`), what it saw (`have`; `seen` are the names it can judge), whom it still has to write (`todo`). `listUsers` asks for one page: `ListLimit` users, `Others` of which may be strangers |
| `Limiter` | `LoginLimiter` | operators on its table, with the shift in 64 bits: a duration is the set of its bits |
| `LocalAuth` | the tables of `auth.Local` | operators: new, kept and ended sessions, codes and their caps |
| `Login` | `auth_handlers.go`, and `users_handlers.go` where it ends sessions or changes a second factor; EXTENDS both | a request takes one step per critical section and works on the copy of the account (`snap`) that it read. Passwords and secrets are version numbers, secret 0 is the empty one; a code of the authenticator is a secret and a time step, and codes of the empty secret are right where it is asked for |
| `FilesSupervisor` | `files.Manager`: `SetWanted`, `supervise` and its waits | `sup` is the place of the goroutine, `wake` the channel of one token, `posting` the callers between the lock and the send, `proc` the process |
| `Storage` | `RunMonitor`, `checkStorage`, adopt, forget; EXTENDS `FilesSupervisor` | `check[c]` is a check of the monitor or of the handler: judged, link set, told. `hand` is the place of the one handler that holds `writeMu`; `scanned` is the cached inventory |
| `Disks` | `Build`, `buildDisk`, `classifyVolume`, `diskStatus` | operators on the readings of `lsblk` and `findmnt`; a path is a sequence of names, a drive its top node and the nodes of its tree |
| `Drives` | `Adopt` call by call, `inspectSource`, `Scanner`; EXTENDS `Disks` | `mounts` is the kernel's truth, `machine` says what `lsblk` shows of it, `cache` the inventory that may be old, `adopt` the place of the request |
| `HyprConf` | parsing a Hyprland config, the verdicts on keys, the edits of its text | operators on sequences of lines; a line is one of a few kinds. The parser, which calls itself for every file a config loads, is a recursive function of place and depth |
| `Shortcuts` | Install, Remove, save, reload, of the dashboard and of `vaultctl`; EXTENDS `HyprConf` | `files`, `hypr` (what the running Hyprland has loaded), and per request its place, the text it read and whether its reload succeeded |
| `MC*` | instances | constants, symmetry, history variables, statements of the docs |
| `UploadProofs`, `DownloadProofs`, `PublishProofs`, `ListenerProofs`, `UsersProofs` (with `FilesSync`), `LoginProofs`, `StorageProofs` (with `Drives`), `ShortcutsProofs` | theorems | |

`Upload` and `Download` both EXTEND `TransferStore` and both implement
`LinkBudget`; `Publish` implements `SafeFolder`, and `Upload` uses its outcome as
the actions `Publish`/`PublishFails`. `Listener` EXTENDS `TransferStore` too and
keeps of a transfer only what the listener can see: in flight, and holding a slot.
`FilesSync` implements `Users`: mirroring changes nothing of the account list.
`Drives` and `Storage` meet in adoption: `Drives` opens what `Storage` sums up as
"the drive is there".

### Abstractions

* Bytes are small units: a part takes them from `free` one by one, and a partial
  file that a crash or a refused removal leaves keeps them. The one byte beyond its
  limit by which `io.LimitReader` finds a file too large is less than a unit.
* The share password, the drive check and the safe opening of a file can only
  turn a request away: they are `TurnAway`.
* An error of the database other than a cancelled context is not modelled, with
  two exceptions: `RevokeFailed` may do nothing, and `Record` may fail at any time.
* An error of `http.Server.Serve` after a successful `Listen` is not modelled.
* `Save` syncs the file and not the folder; a crash of the model is a crash of
  the process, not of the machine.
* In `Users` an account is its role and its disabled flag: nothing else decides a
  change of the list. Hashing happens before the call asks for the lock, so it is
  the time between being asked and taking the turn. In `Login` `Store.Get` and
  `Store.Update` are single steps, because `Users` opens them; a wrong and an
  unknown password are the same answer, a hash is the password itself.
* A sync's failing call is one whose request had no effect, and a background sync
  may begin at any time. Quotas, folders' paths and the texts of SFTPGo's users
  follow from the role and from what the folder allows.
* In `Storage` a drive is mounted, with its Vault folder, or not: every other answer
  of `Inspect` (moved, problem) is "not ready". The inventory is either as old as
  the last scan, which anybody may renew at any time, or missing (a failed scan). A
  refused adoption and a failed `config.Save` change nothing and are left out.
* In `Drives` one scan reads `lsblk` and `findmnt` at the same moment. What the
  adopted folder's path leads to (`EvalSymlinks`, a mount that lies over it) is
  summed up in `LeadsToItself` and `Covered`. `Photos` stands for all the default
  folders. People mount at a few places (`Spots`).
* Of SFTPGo only the process and its user table are modelled. What `supervise`
  shows follows from its place; the length of the backoff is a wait that ends.
  `initprovider` and `serve` are one start, because nothing can be seen between
  them but a failure.
* Reading the link and changing it are one step: a change in between leads to the
  state of doing both before it, or both after it.
* A line of a Hyprland file is a binding, an unbinding, one variable, a source, a
  submap or its end, one of Vault's lines, one that loads Vault's file in the
  user's words, one that is taken for that and loads nothing of Vault's (the name in
  a string or in a block comment, a file of that name in another folder), one that is
  commented out, or blank. Blank lines at the very start
  of a file and the candidates for the folder of the config (`XDG_CONFIG_HOME`, a
  Hyprland started with `-c`) are left out.

## The runs

| Run | Instance | What it shows |
|---|---|---|
| `upload` | 1 link of 2 files and 2 byte units, 2 requests, drive of 4 units with 1 reserved, 1 crash | `SlotAccounting`, `StoppedLinkTakesNoFile` and `ImplementsBudget`: no order of reserve, failure, stop, expiry and crash lets a link exceed its count or count less than it saved. `BytesWithinLimit` is about the bytes on the drive, not the recorded ones: one limit, and one more for each saved file whose size was never recorded and, once two parts are on their way together, for each further request. `KeepsReserve` holds until parts overlap or `Statfs` fails for a part. `RequestsEnd`: every path out of `receive` is taken to its end |
| `upload_leak` | 1 request, no crash | finding: the slot of a broken upload is not given back (`ReleaseUndoesReserve`) |
| `publish` | 2 uploads of one name, 3 candidate names, others add and remove files, every subset of the two calls, removals that the drive refuses | `OnlyWholeFiles`, `NothingLeftBehind`, `ImplementsSafeFolder`: nothing is ever replaced, half a file is never shown, nothing that could be removed stays, `Save` is atomic to everybody else; `Decided`: it ends |
| `download` | 1 link of 2 downloads, 2 phones, 1 file, 2 requests, 1 restart | `GivenWithinLimit` and `ImplementsBudget`: never more phones than the limit. `CountedOnceUnlessRaced`, `ResumeUnlessRaced`: once per phone, and resumable, unless the phone asked twice at the same time or vaultd restarted |
| `listener` | 1 link, 2 transfers, the ticker and a stop handler, auto-off, 1 start | `AddressIsServed`: the address shown always has a socket. `IssuedLinkServed`: an issued link without a listener is one that came up while `StopIfIdle` was between its last question and `Stop`, or older than the process, until vaultd is about to end. `ListenerCloses`, `TurnsItselfOff`: the port closes and Vault turns itself off; `OffOnlyIdleUnlessDisturbed`: only on true answers, unless something began between two questions |
| `listener_restart` | 1 link, 1 restart | finding: links that survive a restart cannot be reached (`OldLinksWork`) |
| `users` | 2 names, 2 requests, 1 background sync, 1 restart, 1 fault; a page of 2 users and 1 stranger in SFTPGo, so both names do not always fit | `AlwaysAnAdmin`, `MemoryIsFile`, `ChangesOneAccount`: an active admin always remains, in memory and on disk; nobody's change is undone. `LoneSyncMirrors`: a sync that ran alone repairs whatever overlapping, failed or cut-off syncs left, for the names its page showed it; `ForeignUntouched`: users Vault did not make are not written to, except through a race of two syncs |
| `login` | 1 account and the owner, 2 browsers, 1 code, 2 passwords, 2 secrets, 2 time steps, room for 2 sessions | `SessionsFollowAccount`, `CodeWorksOnce`, `StepWorksOnce`, `SecretIsConfirmed`, `SignedOutForAReason` with the exact races that are their exceptions, and `LockoutDoubles`, for 200 counts of failures at the real width of the shift |
| `drives` | 8 machines, 2 changes of mounts anywhere in an adoption | `SystemNeverOffered` for `lsblk` that shows all, one or no mounts and `findmnt` that works or fails; `AdoptsNamedDrive`; `AdoptedIsReady` |
| `shortcuts` | 6 sets of files, 3 wishes, 2 requests, 1 trouble (an edit of the user, a request that ends early or a reload that fails) | `NothingTaken`: unless the user edited something since the check. `LoneRequestTakes`: unless only a line that passes for the load line is there, or (for what the dashboard shows) a leftover Lua file; a Hyprland whose reload failed keeps what it had. `UserLinesKept`: unless the user edited the file after it was read |
| `storage` | 2 drives, monitor and handler, one failure or restart | `FilesFollowDrive`, `LinkFollowsDrive`: SFTPGo and the link follow the drive and the configuration. `NoLostWake`. `LinkMeansConfigured`: the link is at another drive only inside a handler or after one of the events in `LedAstray` |
| `storage_forget` | 1 drive, no failure | finding: a check from before Forget restores the link for good (`OtherwiseRemoved`) |

**Bounds and why they are enough.** Handlers interact only through a link's row,
the drive, the maps, the folder and the account list. A conflict needs two of
them; a third repeats what one of the two does to the other, and slots (2, 3), tries
(3) and phones (2) are chosen so that "one left", "none left" and "given back and
taken again" all happen with both requests active. In `publish` the other
programs (`Appear`) already take any name at any moment, which is all a third
upload could do. In `upload` the drive (4) is one unit larger than what its limit and
the reserve leave room for, so limit, reserve and a full drive are each reached, and
what a phone leaves unrecorded can be followed by a second file. One crash is enough to separate what is durable from what is
not, because a crash brings every volatile variable to its initial value. All
other counters are bounded by guards: `MaxFaults` (one failure of a process, of a
link operation or of a call to SFTPGo, or one restart, at any place), `MaxCrashes`,
`MaxRestarts`, `MaxStarts`, `MaxTries`, `MaxChanges`, `MaxTrouble`, `MaxPw`,
`MaxSecret`, `MaxClock`, `MaxFailures`.

Three runs divide their behaviours, because the product of everything is too large:

* `users`: either SFTPGo does not run and both requests are busy with the store, or
  it runs, one request at a time changes an account, and its sync overlaps the one in
  the background (`running` in `MCUsers`). `UsersProofs` covers all at once.
* `login`: a behaviour draws its requests from one of ten menus of requests that can
  disturb each other (`Menus` in `MCLogin`), among them an enable with a set-up, with a
  switch-off, and with the account's removal and making anew; accounts start with a
  second factor in the menus about using it or switching it off, and without in the
  others. One
  account is enough because every table is per account or per browser, apart from
  the caps, which the menu with `redeem` reaches.
* `shortcuts`: a Hyprland runs in those initial states in which what it has loaded
  differs from what Vault can read (`MCInit` in `MCShortcuts`).

The machines of `drives` are: a desktop whose btrfs system is mounted three times,
with a partition and a stick without a partition table; one with the boot partition
on a second drive; one with encrypted drives, whose second drive holds the system's
swap or not; and a RAID volume over two drives, one of which is the system's. Each
comes with one of the ways `lsblk` and udev can show it. The configs of `shortcuts`
are: a binding with a variable and empty lines around it, somebody else's file under
Vault's name, an unbinding and a load line in the user's own words, a source of a file
of that name elsewhere beside a leftover Lua file, a Lua config beside an older
install, and a Lua config with the name in a comment. They close their submaps, and
take none of Vault's keys back after the line that loads its file: Vault reads neither
at that place.

**Fairness.** `Upload` and `Publish` are weakly fair in each handler's own steps:
a goroutine runs, and a read of a body ends, with the read deadline of six hours
at the latest. `Listener` adds the ticker of 30 seconds, the ticker of auto-off,
the passing of time (links expire, idle time grows), the end of transfers, and that
`main`, once its context is cancelled, returns after five seconds at the latest.
`Storage` is weakly fair in the monitor (its ticker of 20 seconds), the running
handler, the supervisor's own steps and the renewal of the inventory (at the
latest after 30 seconds, at the next check); its failures are bounded by
`MaxFaults`, so "SFTPGo ends up running" is said of an SFTPGo that works.
Nothing is assumed of people: nobody has to create, stop or use a link, or to
plug, adopt or forget a drive. `Download`, `FilesSync`, `Login`, `Drives` and
`Shortcuts` state no liveness: a request there is a bounded sequence of calls with
no loop and no wait but a lock, and what it waits for is in the runs above.
`CHECK_DEADLOCK FALSE` is used where the system really may come to rest: all
links over, all requests answered.

**Symmetry** is used in `download`, `login` and `shortcuts` (requests); none of
them checks liveness.

## Findings

1. `upload_leak`: `saveOne` gives a slot back with the context of the request. If
   the phone broke the upload off, that context is cancelled and `Release` does
   not run. A link loses one of its files with every broken upload.
2. `listener_restart`: only `issue` calls `Ensure`. After a restart the links that
   are still active have no listener until another link is created, which is not
   what the comment on `liveLinks` and `docs/api.md` say.
3. `storage_forget`: `checkStorage` judges and acts without `writeMu`. A judgement
   from before Forget sets the link again after Forget removed it, and since no
   drive is configured any more, no later check removes it: `ARCHITECTURE.md` says
   the link is removed whenever the drive is not ready. A restart between
   `config.Save` and `RemoveLink` has the same result. SFTPGo does stop.

### Where a document or comment promises more than every interleaving keeps

These are stated as the exact condition under which the promise holds, in the
property that is named; each was met while modelling.

* A download counts once per phone and file (`SECURITY.md`): not when one phone
  asks twice at the same time, because `usable` reads `counted` before and `count`
  writes it after the reservation (`CountedOnceUnlessRaced`). An interrupted
  download can be resumed: not after a restart (`ResumeUnlessRaced`).
* 100 GB per link (`SECURITY.md:137`): `saveOne` measures a part against the bytes that
  were recorded. A saved file whose `Record` failed, because the phone went away after
  its last byte or the store could not write, or that a crash kept from being recorded,
  lets the link take as much again, also from a phone that sends one file after the
  other; so does each part that overlaps (`BytesWithinLimit`).
* 1 GB that stays free (`setup-guide.md:398`): not when two parts overlap, and not when
  `Statfs` fails, which `server.go:446` takes for no limit (`KeepsReserve`).
* `Save` leaves nothing of a refused upload: it asks once for the removal of the partial
  file and ignores a refusal (`NothingLeftBehind`).
* Sync makes SFTPGo's users match Vault's (`sync.go:105`): of SFTPGo's users it reads one
  page of 500 (`client.go:190`). Beyond it a user is neither renewed, disabled nor
  removed (`LoneSyncMirrors`).
* `StopIfIdle` may close the listener of a link that was created between its last
  question and `Stop` (`server.go:168`; `IssuedLinkServed`).
* Auto-off may cut off what began while `idle` was asking (`OffOnlyIdleUnlessDisturbed`).
* A change of an account ends its sessions: a sign-in that read the account before
  the change opens its session after it (`SessionsFollowAccount`). So does someone who
  changes their own password while an admin disables the account: the handler opens
  the new session after the change, for the copy of the account it read before
  (`users_handlers.go:257`).
* A code of the authenticator works once: two sign-ins at the same time can both use
  it, a failed `Update` of the counter is only logged, and `TOTPEnable` can set the
  counter back (`StepWorksOnce`).
* Two-factor is switched on with a confirmed code: the three two-factor handlers write
  over the account without looking again. A second set-up during an enable leaves a
  secret nobody confirmed, and an enable during a switch-off (or across the account's
  removal and making anew) leaves two-factor on with no secret, until the next
  two-factor write that nothing overtakes (`SecretIsConfirmed`).
* Two syncs at the same time can leave the older list in SFTPGo, until the next one
  that runs alone (`LoneSyncMirrors`); a second one that removes a user lets a first
  one write to a user of the same name that SFTPGo's admin made (`ForeignUntouched`).
* A fresh scan decides an adoption (comment at `storage_handlers.go:86`): `Inventory`
  answers even a forced call from a cache of up to `MinRefresh`, so a drive that was
  exchanged in these seconds can be adopted under the old one's name
  (`AdoptsNamedDrive`).
* A drive of the system is never offered: with the system on two drives, an `lsblk`
  that shows one mount per filesystem and a failing `findmnt`, one of them can be
  (`SystemNeverOffered`). A RAID volume that spans the system's drive is offered
  under its other drive: it does not back a mount of the system.
* Only Vault's lines are ever written (`docs/shortcuts.md`): Install and Remove write
  back the whole text they read, which undoes what the user saved in between. And the
  rest of the config does not stay "byte for byte" (`docs/shortcuts.md:90`): Remove
  makes one empty line of several, anywhere in the file, and drops those at its end.
  `UserLinesKept` holds the code to an empty line between two others; that more are
  lost is stated here and in the property, and no run asks for all of them.
* Saved shortcuts work at once: not if the config has a line that names Vault's file and
  does not load it (`install.go:88` takes a source of that name in any folder,
  `lua.go:77` any line that does not begin with `--`), because Install then adds none.
  A failing `hyprctl reload` is ignored (`lua.go:260`) and the answer is the same. And
  `Installed` prefers a leftover `omarchy_vault.lua` while `hyprland.conf` is in use
  (`custom.go:160`), so the dashboard shows its shortcuts. `LoneRequestTakes` has exactly
  these exceptions.

Read in the code and not checked by a run: `vaultctl off` may say that Vault is off while a
`vaultd` started by hand is still stopping; `handleTOTPDisable` counts a wrong
password as a failure without asking whether the account is locked.

## The proofs

Each proof module names in its head what its inductive invariant adds and why.

* `UploadProofs`, for every set of links and finite set of requests, and all
  limits (assumption `UploadAssumption`): `TypeCorrect`, `BusyExact`,
  `SlotsAccounted`, `StopIsFinal`, and `UploadImplementsBudget`, that every step of
  the handlers is a step of the budget or leaves it alone. `SlotAccounting` is not
  inductive alone: that a release never goes below what was saved needs that the
  releasing request is itself one of the unsaved ones that the count covers, and
  that `inflight` and the set of working requests change together needs the exact
  `InflightExact`; the invariant is the conjunction of the three with `TypeOK`. The
  arithmetic of cardinalities (a set grows or shrinks by one request) is in lemmas
  of their own. `BudgetKept` proves the abstract budget's own promise, for any number
  of slots, and with the refinement it gives `UploadWithinBudget`. `BytesLimited` and
  `ReserveKept` follow the bytes of every part from the measurement to the record:
  what a part may still write was measured against a count that can have grown since
  only by a part that overlaps it, and what is on the drive and not in the count is
  what the histories of `MCUpload` note (`missed`, `blind`, `overlapped`).
* `DownloadProofs`, for any links, phones and files and a finite set of requests
  (`DownloadAssumption`): `TypeCorrect`, `BusyExact`, `GivenWithin` and
  `DownloadImplementsBudget`. A request may send a file without counting it because
  the map said that the phone is known, and a restart or `pruneGrants` may have
  cleared that map since. So the invariant says that whatever the map or a request
  remembers was given already or is being given (`Remembered`), and that the
  count of a link covers what was given and what its requests hold (`WithinCount`,
  `Covered`). `CountedOnce` and `ResumeRight` add the history of `MCDownload`: of a
  phone and file that did not race, one request at most is between its first look at
  the map and the count (`Solo`), the map still has what was counted (`InMap`), and a
  request that was told "not counted" is right (`Unknown`).
* `PublishProofs`, for any uploads and number of tries (`PublishAssumption`):
  `TypeCorrect`, `ShownWhole`, `LeftClean`, `ReplacesNothing`, and
  `PublishImplementsSafeFolder`. The invariant adds what an upload at each place
  has: a whole partial file before it claims a name, a name that is its own after,
  and a filesystem without the first call if it stands at the second. A partial file
  of an answered upload is one the drive refused to remove (`stuck`).
* `ListenerProofs`, for any links, transfers and starts (`ListenerAssumption`):
  `TypeCorrect`, `BusyExact`, `AddressServed` and `IssuedServed`. What closes the
  listener is an answer given some steps earlier; `Missing` says what it is still
  worth until vaultd is about to end (`Run` then stops it without a question): every
  link that is active came up after the question. `OneStop` says that a
  socket without a server belongs to exactly one caller that is about to shut it down.
  `OffOnlyIdle` needs the same for auto-off (`Unwatched`): what came up between two of
  its questions is what the history of `MCListener` notes.
* `UsersProofs`, for any finite set of names and any requests (`UsersAssumption`):
  `TypeCorrect`, `AdminAlways`, `FileFollowed`, `OneAccountPerWrite`. The inductive
  invariant says that whoever stands past the lock is the holder, that memory and
  file differ only while the holder stands between rename and answer, and that the
  list it is about to write keeps an active admin if the list in memory has one.
* `UsersProofs` also, for any number of background syncs and failing calls (adds
  `SyncAssumption`): `MirrorImplementsUsers`, hence `AdminBesideSync`;
  `SyncTypeCorrect`, `LoneSyncIsEnough` and `ForeignKept`. `SyncInv` says what a sync
  that nothing disturbed knows between two calls: for the users it could see and still
  has to write or remove, SFTPGo holds what it saw, and for the others it could see
  what the list asks for. A
  sync that begins later ends that, so the invariant also says that after an
  undisturbed sync all syncs on the same list see and write the same again (`Repeats`).
* `LoginProofs`, for any finite set of accounts, browsers, login codes, menus of
  requests, caps and lifetimes (`LoginAssumption`, `LocalAuthAssumption`,
  `LimiterAssumption`): `TypeCorrect`, and all six properties of the run. Every
  request works on a copy of the account. `Checked` says what it found out about the
  copy before it came where it stands, and `Worth` what the copy still says of the
  account while no write has passed it. `Behind` is what makes a code of the
  authenticator work once: the account remembers a step at least as late as every one
  that signed somebody in, or has another secret by now. For `SecretConfirmed` a request
  carries whether another one passed it since it read the account (`crossed`), and the
  account whether its last two-factor write was such a one (`mixed`). `EveryLockout` is about the
  64-bit shift itself and holds for every number of failures, where the run tries 200.
* `StorageProofs`, for any set of drives and any number of failures (`NoneAssumption`,
  `CallersAssumption`): `StorageTyped` (types, and a process exists exactly where
  `supervise` holds it), `WakeNotLost` and `LinkConfigured`. The last needs that a
  handler checks only after it has set the link (`HandlerChecks`); otherwise the end
  of a check could cover up a link that was never set.
* `StorageProofs` also, for any machines, mount points, contents and number of mounts
  and unmounts (`DrivesAssumption`); the two models share the module and no variable:
  `DrivesTyped`, `SystemSafe`, `NamedDrive` and
  `AdoptedReady`. A machine is anything `IsMachine` allows: any finite set of trees of
  nodes with unique drive names, in which a place holds one volume, swap is not
  mounted anywhere else, and one of the volumes nobody plugs in is the root. The
  kernel and `lsblk` guarantee the first three; the last says that the root
  filesystem is on a drive that `lsblk` lists. `OnePlace` keeps that true while drives come and go, and
  `Honest` says what an old inventory is worth after that: a place where it saw a data
  volume is never one where a volume of the system is. That is why an adoption that
  was overtaken can reach another data volume, and never the system. `AdoptedReady` has
  a hypothesis of its own, `Recognised`: filesystems have UUIDs of their own (a cloned
  one would be taken for the other), and an `lsblk` that shows one mount of each node
  shows all there are on drives with data volumes. Without the second, Adopt and
  `inspectSource` can disagree about which drive is the system's, depending on whether
  `findmnt` worked. `MCDrives` lets TLC check that its machines satisfy both.

* `ShortcutsProofs`, for any configs, wishes, lines of the user and number of requests
  (`PlanAssumption`, `ShortcutsAssumption`): `TypeCorrect`, `LinesKept` (the run's
  `UserLinesKept`), `ReadIsCurrent`, `IncludeStaysOurs` and `LoneWrites`; of the edits
  themselves `RemoveUndoesInstall` and `RemoveIsDone`. The first part is about texts:
  what `writeWithout` picks from a config are the user's lines, all of them and in
  their order, whatever stands around them. The second is the invariant that requests
  keep together without a lock: what a request that is about to write has read are the
  user's lines as they still are (`ReadStands`), because what any other request writes
  in between leaves them alone too; only an edit of the user makes the copy old. Of
  empty lines, what is kept is one between two lines (`Between`). And
  between the look at Vault's own file and its write nobody puts a file of the user's
  there (`IncludeIsOurs`). `LoneWrites` adds the history of a request that nobody
  interrupts: after Install the file and a line that loads it, or one that passes for
  it, are there, and after Remove they are not, also when an earlier request ended half
  way.

**Only model-checked.**

* Everything under fairness: `RequestsEnd`, `Decided`, `ListenerCloses`,
  `TurnsItselfOff`, `FilesFollowDrive`, `LinkFollowsDrive`. Liveness under fairness is
  out of the prover's reach.
* `NothingTaken` and `LoneRequestTakes` of `Shortcuts`: both depend on what the parser
  finds in files that load each other. `parseFile` is defined by recursion over the
  depth, and what such a definition computes for every text would need an induction
  that the prover cannot do. `LoneWrites` proves what `LoneRequestTakes` says of the
  files on disk, and that a running Hyprland has loaded them.

## What is left

* More than one account in `login`, and syncs of both requests at once in `users`,
  would need longer runs; the proofs cover both.
* A rule for the first account made twice at once, and for guesses that pass the limiter
  together: the models have both interleavings, and the code has no bound to state.

## Not modelled

* **Text**: cleaning of file names (`CleanName`, `CleanFileName`), pages, QR codes,
  messages, labels. `Save` is modelled from the clean name on.
* **Configuration** (`internal/config`): loading, checks of single fields, and one
  atomic save of the same pattern as the save in `Users`; what adopting and
  forgetting save is in `Storage`.
* **Control socket** (`internal/control`): who may connect is decided by the kernel
  (mode of the socket, peer credentials). One `vaultd` at a time is decided by the
  TCP port, which is opened first; only with different ports could two starts both
  remove a socket that looks stale.
* **`ipLimiter`**: a token bucket is a rate; it changes when a phone is refused and
  no state the models keep.
* **`vaultctl`** other than `shortcuts`: clients of the API that parse arguments and
  print; `power.go` asks systemd.
* **Health** (SMART), sizes and labels of drives: shown, and decide nothing.
* **A power cut**: which names of a folder survive it is the filesystem's.
* Demo data, scripts, helpers that run commands, dashboard and plugin: every
  decision they show is made in the code above.
