# proxy-sticky in TLA+

Models, model checks and proofs of `proxy-sticky`, the SOCKS5 proxy in `src/`
that gives every sticky account an IPv6 address of its own.

## 1. The system

`proxy-sticky` is one Go process. Clients reach it by SOCKS5, directly or from
sing-box, whose entries (inbounds) are routed to `socks` outbounds that lead
back to the proxy under one account per entry or per user. For each connection
the proxy binds a source address on a WireGuard interface: a fixed /128 for a
sticky account, a random one (or the base address) for the default account. An
admin panel inside the same process edits the configuration files and asks
systemd for a restart.

| component | code | state it keeps | operations | talks to |
|---|---|---|---|---|
| account store | `allocator.go` | records, per-tunnel counters, `state/accounts.json` | Seed, Allocate, ReapIdle, Unregister, DropTunnel, LoadStore | everything below that needs an address |
| sticky egress | `socks5.go` (resolve, ensureAddr), `dial.go`, `main.go` (startup, reapLoop) | the /128s on the interfaces, the `ensured` cache | one goroutine per connection, one reaper | store, interface, sing-box files (who is an entry) |
| ephemeral pool | `ephemeral.go`, `netlink6.go` | identifiers in use, pending removals, cached interface index | Acquire, Release, the timer's removal | the same interfaces |
| connection relay | `socks5.go` (handle, proxy, copyBuff) | slots of `max_conns`, two goroutines and a channel per connection | handshake, dial, copy, close | client and destination |
| configuration | `config.go`, `yamlcfg.go`, tunnel handlers of `admin.go` | `config.yaml`, `wg/*.conf`, the copy in memory | LoadConfig, add, replace and delete a tunnel, change the default | restarts the process; takes interfaces down; sing-box files |
| sing-box files | `singbox.go`, `batch.go`, inbound handlers of `admin.go` | `inbounds.json`, `outbounds.json`, `route.json`, `state/inbounds-disabled.json` | applySingBox and the edits of seven handlers | sing-box (check, restart) |
| share links | `singbox.go`, `batch.go`, inbound handlers of `admin.go` | `url.txt` | a line added, moved to another port, removed | edited mostly inside applySingBox, before sing-box has checked |
| host networking | `main.go`, `tunnel.go`, `nft.go` | interfaces, ip rules, nft tables and their files, `/etc/wireguard` | WriteNFT, EnsureUp, TakeoverLegacy, EnsureRule, LoadNFT, ensureRuleLoop, Down | the kernel, systemd and the old set-up, by external programs |
| admin login | `admin.go` | failed logins per address | login, logout | |
| UI, environment check | `ui.html`, `envcheck.go` | none | | |

What is hard in it:

* **Interleavings.** Connection handlers, the reaper and the timers of the pool
  share one interface and hold no lock from one step to the next. Handlers of
  the admin panel run at once; only `applySingBox` has a lock, and the handlers
  read before it and write after it.
* **An environment with a will of its own.** The host's network manager flushes
  ip rules, systemd restarts interfaces with whatever file is in
  `/etc/wireguard`, and the old set-up may still be up when the program starts.
* **Copies of one state.** The running proxy, `delTunnel` and `--unregister`
  each load, change and save all of `accounts.json`. Memory and `config.yaml`
  differ from a handler's write until the restart. The `ensured` cache and the
  cached interface index outlive the interface.
* **Failure.** Saves fail after memory changed; the process is killed between
  any two steps; `ip`, netlink and sing-box fail; several files are written one
  after the other.
* **Numbers.** Counters that must only go forward, marks of which 8 bits count,
  numbers filled in by place in a list.

## 2. Modules

| module | models | composed with |
|---|---|---|
| `AccountStore` | the store: one action per method, each under the store's mutex in the code | |
| `StickyService` | abstract specification: what users of sticky accounts are promised | |
| `StickyEgress` | startup, handlers, reaper, crashes, interface restarts | extends `AccountStore`, implements `StickyService` |
| `StoreRivals` | three holders of a store: proxy, `delTunnel`, `--unregister`; default and /64 changing under it | extends `AccountStore` |
| `EphemeralPool` | the pool, its timers, netlink, a sticky neighbour | |
| `ProxyConn` | one connection from accept to close, several of them at the slots | |
| `TunnelConfig` | the tunnels of `config.yaml` in file and memory | component of `HostNet` |
| `HostNet` | startup step by step, rule loop, `Down`, kernel, systemd | extends `TunnelConfig` |
| `SingBoxConf` | outbounds and rules as pure operators | |
| `SingBoxAdmin` | the handlers around `applySingBox`, its lock and files | extends `SingBoxConf` |
| `ShareLinks` | the lines of `url.txt` and the handlers that edit them | |
| `MC*` | constants for TLC | |
| `SeqPick` | the loops that copy what they keep of a slice | used by `TunnelConfig`, `SingBoxConf`, `ShareLinks` |
| `AccountStoreProofs` | theorems about `AccountStore` | extends it |
| `StickyEgressProofs` | the egress is a behaviour of the store, implements `StickyService`, and its own safety | extends `StickyEgress`, `AccountStoreProofs` |
| `StoreRivalsProofs` | the store next to its rivals | extends `StoreRivals`, `AccountStoreProofs` |
| `ConnectionProofs` | theorems about the pool and about the relay | extends `EphemeralPool` and `ProxyConn` |
| `SeqPickProofs` | what `Pick` returns: order, length, members; the same of `InsertAt`, `Min`, `Max` | extends `SeqPick` |
| `ShareLinksProofs`, `HostNetProofs`, `SingBoxAdminProofs` | theorems about the links, about configuration and host, about the sing-box files | extend `ShareLinks`, `HostNet` and `SingBoxAdmin`, each with `SeqPickProofs` |

### AccountStore

`mem` is the `Store` object, `file` what `accounts.json` decodes to, both a
function from users to records and a counter per tunnel. An address is a pair of
a /64 and an interface identifier, identifiers are numbers below `IIDCount`
(2^64) and wrap. `Allocate` is two actions, as its first `if` is: an account on
record is touched and saved; a new one gets the first free address from `Start`.
`saveLocked` is `Save`: a temporary file renamed, so all or nothing; memory keeps
the change when the save fails, and `Allocate` then answers an error. `Restart`
is `LoadStore`. A record's `used` is its `last_used` as the reaper sees it:
unset (older files), recent, older than the TTL. `granted` and `issued` are
history: what callers were answered and still rely on, and all ever answered.

### StickyEgress

A handler goes through `Resolve` (the store), `CheckEnsured`, `AddToIface`,
`MarkEnsured` (the three parts of `ensureAddr`, whose lock is dropped around
`ip addr replace`), `DialOk` or `DialFails`, and `Close`. The reaper goes through
`ScanEntries`, `Reap`, and for each removed account `DelFromIface` and
`ForgetAddr`. `StartServing` prunes the interface. `Crash` returns to startup;
the interface survives or, if the machine died, is empty. `ImplementsService`
maps `granted`, `issued` and the relaying handlers to `StickyService`;
`UsesStore` says that every step is a step of `AccountStore` or leaves it alone,
so that what is proved of the store holds in the running proxy.

### StoreRivals

`del.copy` and `cli.copy` are the stores that `delTunnel` and `--unregister`
load; `mem` stays the proxy's. `disk` and `conf` are the configuration on disk
and the one the proxy was started with. `RestartProxy` is systemd's restart.
`astray` is history: whether a default or /64 was replaced, which leaves addresses
of the former one on record, and whether a deletion was cut short.

### EphemeralPool

`used` is the pool's set, `timers` the pending removals, `iface` what is on the
interface. `Acquire` succeeds with an identifier that is neither reserved, nor
taken, nor on the interface (netlink answers EEXIST); `AcquireBase` is the end
of the 16 draws. `index` is the cache of `linkIdx`; after the interface was
restarted it is stale and every netlink call fails. `leaked` is history.

### ProxyConn

`sem` is the semaphore channel, `pc` the handler, `copier` the two goroutines of
`proxy` with what they copied, how long their source was quiet and why they
stopped, `done` the messages in the channel. The bytes of the SOCKS5 handshake
are one step that succeeds or ends in `GiveUp`.

### TunnelConfig, HostNet

A configuration is the sequence of tunnels with table and mark (0: left out),
the default, and the tunnels whose /64 holds a seed. `file` is on disk, `cfg` in
memory. A handler checks (mostly against `cfg`), edits a copy of the file, opens
the file for writing (`Truncate`) and fills it (`Finish`), after which it asks for
a restart. It asks for none when it fails: `WriteFails` (the file cannot be
loaded, opened or, once truncated, filled), `SyncFails` (`putSocks` has written
the file when sing-box cannot be synchronised) and `DelTunnel` of a tunnel the
file lacks. `cut` is history: the tunnels such a deletion took down before, and
`NoName` once a failed handler left the file changed.

`HostNet` adds `main`: `phase` and `step` walk through `Boot` (LoadConfig),
`WriteNFT`, `EnsureUp`, `TakeoverLegacy`, `EnsureRule` and `LoadNFT`, tunnel by
tunnel in the order of the code, and then serve. The kernel is `links` (the table
each interface was brought up with), `rules` and `tables`; `etc` and `runtime`
are the wg-quick and nft files, `legacy` the tables of the old set-up. An nft
table is its rules in order; `Rewrites` is what all tables on the hook make of a
packet's source, `Tried` which routing tables a mark leads to. While the program
serves, `Tick` is a round of `ensureRuleLoop`, `Down` what `delTunnel` runs before
it edits the file, with the commands of it that succeed; what it fails to remove
is in `left` until main or the machine brings the tunnel up afresh. From outside
come `Flush`, `Flap` (an interface restarted with the file found), `Kill` and
`Reboot`; `Fails` is an external program failing under `main`, `HandleFails` a
handler that fails in one of the ways of `TunnelConfig` or whose `Down` does, with
any of the sets of commands in `Failing`. Programs are modelled by what the code
relies on: `wg-quick up` runs PostUp of the file it finds, `ip rule del` removes
one rule, `nft delete` and `nft -f` replace a table. `wg-quick up` also adds a
default route to the tunnel's routing table, of which there can be one: where an
interface that a `Down` left behind holds the table, it fails (`UpRefused`).

### SingBoxConf, SingBoxAdmin

Outbounds are named by what their tags say (`ps-<entry>`, `psu-<entry>-<id>`,
`wg-<tunnel>`), a rule is an entry, a user or none, and an outbound; the order of
rules is kept, as sing-box takes the first that matches. A handler reads what it
reads outside the lock (`Ask` and its callers), then `Apply` (load, change,
check), three `WriteSB`, `RestartSingBox` or `RestartFails`, and `SaveDisabled`.
`WriteFails` ends it at any of the three files, those before it being new, and
`Kill` ends the process anywhere; `torn` is history, the inbounds whose handler
stopped between its first file and its last (all of them for a deletion of a
tunnel or a synchronisation). An error of `saveDisabled` is ignored, as in the code.
`Accepts` is when a change finds what it is about, `Changed` what it makes of the
configuration and `ChangedDisabled` of the copy of the disabled list, one case
per kind of request. A synchronisation changes one entry after the other, each
round of its loop a `SyncEntry` under the lock; its check comes after them and
looks at nothing else, so that `Refuse` is one step, as for the others.
`StartsAssumption` says what the files at the start have in common: they are such
as the program writes, or wrote in older versions (an entry routed to a
`wg-<tunnel>` outbound).
Credentials, listen addresses and inbound ports are left out; a rule names one
entry, as all rules the program writes do.

### ShareLinks

`ents` are the entries, on or off, with their users in order; `url` is the
sequence of lines, a line its port and credentials (`whole` is false for a socks
line that lost its user name). A handler asks outside the lock (`req` holds what
it read), then `Apply*` under `sbMu` edits entries and lines at once, as
applySingBox's callback does; `CheckFails`, `WriteSB` and `Restart` follow. When
sing-box refuses, the entries stay and the lines are changed. `delInbound` then
loads and saves the lines without the lock (`LoadLines`, `SaveLines`). `issued`
is history: the nodes a batch answered; `cut`: lines and entries were put at odds
by a failure.

## 3. Runs

| run | instance | shows |
|---|---|---|
| `StickyEgress` | two handlers, three users, one a seed and one an entry, an old file, crashes, failing saves and `ip addr replace` | answers durable, binds succeed, no shared or stray address, no address changes owner, protected accounts kept, refinement of the store and of `StickyService` |
| `StickyEgressLive` | one handler, crashes, interface restarts, fairness | set-ups end, idle accounts are reaped and leave the interface |
| `StoreRivals` | two tunnels, delete and unregister, default and /64 changing, crashes at every step, failing saves, no client meanwhile | no ghosts unless a deletion was cut short, egress in the right /64 until a default or /64 was replaced, answers on disk, no account ever moves |
| `EphemeralPool` | two connections, five identifiers, all faults, fairness of timers | own address, grace kept and finite, no leak |
| `ProxyConn` | two connections for one slot, fairness | slots exact, streams end whole, both goroutines end with the first |
| `HostNet` | three names, the old set-up up with one of them, all handlers one at a time, flushes at any time and one mishap: a failing startup step, a failing handler, `Down` with one or all of its commands failing, a kill, reboot or interface restart; fairness | the file loads again, tunnels apart; memory, file and host differ by what a failed handler took down, wrote or left and nothing else; marked packets leave by their tunnel with the source they should have, rules return, the proxy serves again unless an interface left behind is in the way |
| `SingBoxAdmin` | two entries, two tunnels, two users, two ports, all handlers, one at a time | rules in order, users follow, ports follow, entries protected, none lost |
| `SingBoxRivals` | two handlers at once on two entries, binding, unbinding, deleting and generating users, sing-box refusing and failing, writes failing at each file, kills at any step | rules name outbounds that exist and outbounds have their inbound, but for an inbound whose own handler stopped between its first file and its last |
| `ShareLinks` | two handlers at once on different entries, sing-box refusing and failing | every node handed out has its line, every line opens its entry, none outlives it |
| `StoreRivalsGhost` | as `StoreRivals`, clients connect meanwhile | **violated**: deleted accounts come back |
| `SingBoxLost` | `delTunnel` and a failing restart of sing-box | **violated**: the tunnel's entries are lost |
| `ShareLinksClone` | clone, batch and port change of one entry | **violated**: a node loses its credentials |

Two files check more of `HostNet` than fits a run: `HostNetMishaps.cfg` (two
mishaps, no flushes) and `HostNetBusy.cfg` (requests while a restart is due, safety
only); both pass. The remaining `.cfg` files are those of section 5. Temporal
properties are checked in `StickyEgressLive`, `EphemeralPool`, `ProxyConn` and
`HostNet`; the rest is safety.

### Bounds, and why they are enough

* `IIDCount`, `IIDBound` (store): 8 identifiers, allocation up to 3 or 4 (from 2;
  in `StoreRivals`, whose sticky range starts at 1, up to 2). Two
  ordinary accounts compete for two or three addresses, so skipping, reuse after
  reaping and seeds all happen; wrapping does not (it takes 2^64 allocations).
  The theorems hold for all values.
* `Handlers` = 2: what two handlers of one account, or of two, can do to the
  cache; no state is shared beyond cache, interface and store.
* `NobodyInSetup`: `account_idle_ttl` (hours) does not elapse while a connection
  is being set up (seconds). Without it an account could be reaped between
  `Resolve` and the dial; the code relies on it. The same guard keeps interface
  restarts out of set-ups.
* `Random` = 1..5 holds a reserved identifier and the base; three others are
  enough for two connections and one address in grace.
* `Chunks`: 1 read per side for the first connection, silence on the second,
  which is there for the slot only: connections share nothing else. `Idle` = 1 tick;
  `CopyFasterThanIdle`: copying takes less than `idle_timeout`.
* `MaxTunnels` = 3, `MaxNumber` = 66: a file with two tunnels can lose and gain
  tunnels at both ends; marks stay below 256 but in `HostNetMask.cfg`.
* `MaxMishaps` = 1: one interface restart, kill or reboot at any moment but one,
  one failure of a program that startup runs or of a step of a handler. The moment
  excepted, for kills, reboots and failures (`Whole`), is that between truncating
  and filling `config.yaml`, which `HostNetKill.cfg` is about. Two mishaps, such
  as a kill after a deletion that failed, are in `HostNetMishaps.cfg`, any number
  in the theorems. Flushes are unbounded.
* `Failing`: each command of `Down` alone, and all three. Those of PostDown are
  the same commands and fail with them.
* `MaxCreds` = 4: an added entry and two nodes, or a clone and a node, beside the
  users at the start; a batch draws one user, as its loop does the same for each.
* `MaxInbounds` = 3 (`MayGrow`: entries are added below it), generated ids
  `u`, `v` never drawn twice (the code draws random UUIDs): an entry can be cloned, disabled and deleted with one neighbour.
  `SingBoxRivals` has one tunnel and one user: two handlers of one entry, or of
  two, meet in every order there is, and no request in it grows the lists. Nothing
  is disabled in it, the list of disabled inbounds being what the lock does not
  protect (section 5); adding entries next to it is covered by the theorem only.
* `Quiet` (rivals): no client connects from the operator's change until the
  restart. `Habits` of `SingBoxAdmin` and `HostNet`: `turns` one request at a time
  and the restart when none is at work, `restarts` none while a restart is due
  (of `HostNet` its run only; `HostNetBusy.cfg` and the theorems do without),
  `careful` an operator who looks at the file. Of `ShareLinks`: `apart` requests at one time are about different entries
  and a deletion is alone, `fresh` names and ports are of no other entry, `own` a
  port changes only where the first line is the entry's own, `wary` none once a
  failure put lines and entries at odds. They say under which use the
  properties hold; section 5 lists what happens without them.
* `CHECK_DEADLOCK FALSE` where the system may stop: all connections closed, or
  all tunnels' numbers used up to the bound.

### Fairness

Weak fairness of every goroutine's next step (the Go scheduler is fair to
runnable goroutines and every wait in a set-up has a deadline), of startup, of
the reaper's round (a ticker) and of the pool's timers. Clients need not
connect, send or close; nothing forces faults, crashes or the operator. In
`ProxyConn` a read on a socket the handler closed returns. In `HostNet` startup
goes on and begins again after a failure (the unit has `Restart=on-failure` and
`RestartSec=3`, too slow for systemd's limit on starts), and the ticker of
`ensureRuleLoop` fires for every tunnel.

## 4. Proofs

`AccountStoreProofs` proves for every set of users, tunnels, seeds and old files,
every number of identifiers, with saves failing and the process dying at any step:

* `TypeCorrect`: `StoreSpec => []StoreTypeOK`. Inductive as it stands.
* `GrantsAreDurable`: `StoreSpec => []GrantsDurable`. Inductive with
  `StoreTypeOK`: an answer is given only after a save, records are only removed
  with their promise, and touching or ageing keeps addresses. The lemmas
  `Honors*` say that of each operator on store values.
* `AddressesAreSticky`: the action property `StickyForever`, from the same
  step lemma: an account that is on record is answered its record.
* `AddressesAreUnique`: `[]AddrsUnique` under `SeedsApart` (seeds lie below the
  sticky range and differ), `NoWrap`, and old files that satisfy the invariant.
  The inductive invariant is `Sound` of memory and file: no shared address, and
  every record sticky or its seed's (`Placed`), without which a seed's address
  would not be free when it is seeded.
* `AddressesHaveOneOwner`: `[]OneOwner`, in addition under `OneNetPerName` and
  files that carry their counters. The invariant `OwnerInv` adds that counters
  are past every sticky address on record and past every address ever issued,
  in memory and in the file: the file's counter is what a restart continues from.

`StickyEgressProofs` carries these to the running proxy, for every number of
handlers, every tunnel a user has, and all faults (`scan`, `add`, `del`,
`crash`, `flap`, `save`):

* `EgressTypeCorrect`: `Spec => []TypeOK`. Inductive as it stands; the store's
  part comes from `TypeStep`.
* `EgressUsesStore`: `Spec => UsesStore`, that is `StoreSpec`. One case per
  action: it is an action of the store or leaves the store alone. From it,
  `EgressHasOneOwner` (`Spec => []OneOwner`) under the assumptions of
  `AddressesHaveOneOwner`, and in the same way whatever else is proved of the
  store.
* `EgressImplementsService`: `Spec => ImplementsService` under the same
  assumptions. `ServiceInv` is the inductive invariant: beside types and
  `GrantsDurable`, `Answered` (a live promise was issued, so answering it again
  is a stutter) and `SetupsFresh` (the account of a connection being set up is on
  record, recently used and promised the address about to be bound, so that the
  reaper cannot take it and the session opened is the one promised). That no
  `Assign` takes another account's address is `OneOwner` of the next state.
  `SetupsFresh` rests on `NobodyInSetup`, the assumption on time of section 3.

Its second half proves the egress's own promises, each for all faults but the
one that breaks it (section 5):

* `DialsFindTheirAddress` (`BindSucceeds`), unless an interface is restarted
  (`flap`), under the assumptions of `AddressesHaveOneOwner`. The inductive
  invariant `BindInv` says of every address at risk whose it is: seeds and their
  addresses are never on the reaper's list (`SeedsShielded`), nothing is cached
  before the program serves (`Starting`), what the reaper is about to delete was
  issued once and is of no account on record (`PendingRetired`), what is cached
  and of an account on record is on the interface (`Cached`), and so is what a
  handler has just added (`Added`). That an address on the reaper's list is not
  handed out again is `OneOwner`.
* `NothingStray` (`NoStrayAddr`), unless `ip addr del` fails (`del`), if accounts
  lie in the /64 of their tunnel. `StrayInv` adds to it that the records, and
  what a handler holds, lie there.
* `ProtectedAreKept` (`ProtectedKept`), unless the sing-box files cannot be read
  (`scan`). `Shielded`: the set the reaper works with holds seeds and entries.

`ConnectionProofs`, in its first part, for every set of connections and
identifiers, netlink failing and the interface restarting: `PoolTypeCorrect`, `AddressesAreOwn`
(`OwnAddress`), `GraceIsKept` (`GraceKept`) and `NothingElseLeaks` (`NoLeak`).
`PoolInv` joins the four and adds `Accounted`: before the interface was looked
up nothing is in use, and an address whose removal failed is no longer in use.

In its second part, for every set of connections, `max_conns`, amounts of data
and deadlines: `ConnTypeCorrect`, `SlotsAreExact` (`SlotsExact`) and
`StreamsEndWhole` (`EndedWhole`). The latter needs `Reasons`: what a goroutine
that stopped, and a handler that has a message, know of the stream.

`StoreRivalsProofs`, for every set of users, tunnels, configurations and old
files, with crashes at every step and saves failing, if `Quiet` (section 3):

* `RivalsInvariant`: `Spec => []RivalInv`. Its core is `CopiesCurrent`: a store
  that `delTunnel` or `--unregister` loaded is still what the file says when it
  is saved. `OneRival` (one of them at a time, and the proxy's configuration is
  the one on disk unless a restart is due) and `Deleting` (how far a deletion has
  got) keep it so.
* `AnswersStayOnDisk` (`AnswersOnDisk`) and `StickyNextToRivals`
  (`StickyForever`) follow. `NoGhostAccounts` (`NoGhosts`) and
  `EgressStaysInTunnel` (`EgressInTunnel`) ask in addition that the proxy first
  starts where it last stopped (`Settled`: the old file's accounts are of the
  configuration's tunnels), which an address left from a former default breaks.

`ShareLinksProofs`, for every set of requests, names, ports and starts, with
sing-box refusing and failing to restart at any point:

* `LinksTyped` (`TypeOK`), without any assumption on use: the lock is held
  exactly by the request between its change and its answer.
* `LinksInvariant`: `Spec => []LinkInv` under `Careful` (requests at one time are
  about different entries, names and ports are of no other entry, a port changes
  only where the first line is the entry's own) and `StartsConsistent` (the
  files agree at the start). `Apart` says how two requests can be on their way
  at once; `InStep` relates lines, entries and what each request has read: the
  lines agree with the entries except where the request that holds the lock has
  changed them ahead of sing-box, or a deletion has still to remove some. It
  holds until `cut`, a failure between two files.
* `NodesStayLinked` (`NodesLinked`), `LinesHaveEntries` (`NoOrphanLinks`) and
  `LinesOpenEntries` (`LinksOpen`) are what it says when no request is at work.

  `ShareLinksClone`, `ShareLinksSocks` (without `own`), `ShareLinksStale`,
  `ShareLinksRemoval` (without `apart`) and `ShareLinksNames` (without `fresh`)
  show that each part of `Careful` is needed.

`HostNetProofs`, for every set of names, files, requests and old set-ups, any
number of failures in main and in handlers, with any of `Down`'s commands among
them, kills, reboots, flushes and interface restarts. The inductive invariant has parts that rest on those before them:

* `DocInv`, `CfgInv`: the file when no handler writes, and what a handler is
  about to write, are valid and have their wg files; so was what is in memory.
  `HostStartsAgain` (`StartsAgain`).
* `MemInv`: memory is the file unless a restart is due, its default aside once a
  `putSocks` has failed (`SameAsFile`), and main has brought up what it has passed
  and no deletion took down. `HostMemoryIsFile` (`MemoryIsFile`); with `Placed`,
  `HostTyped`.
* `NumInv`: every file, written or about to be, numbers its tunnels apart;
  interfaces have the table of a tunnel of their name, in the file, in memory and
  in what a handler is about to write, or no tunnel there has their name and their
  `Down` failed (`LinksOf`); no two have the same table (`OneEach`), which is what
  a refused `wg-quick up` sees to; a number about to be added is in use in no
  file; rules and wg-quick's files hold own numbers. `HostTunnelsApart`
  (`TunnelsApart`), `HostEgressRouted` (`EgressRouted`).
* `NftInv`: nft tables loaded are of tunnels that the files, present and future,
  have, or of one whose `Down` failed (`TablesOf`), and are about the tunnel they
  are named for (`Labelled`), so that a left-over rewrites no mark but its own;
  what main has passed is written, taken over and loaded; the old tables
  are gone once the takeover ends. `HostNothingLeft` (`NothingLeft`),
  `HostStickyUntouched` (`StickyUntouched`).

Its assumptions are the conditions on use that the violated variants of section
5 show to be needed. `Orderly`: one request at a time (`HostNetOverlap`), by an
operator who has the file in view, no kill and no failure between truncating and
filling `config.yaml` (`HostNetKill`), and files that `LoadConfig` accepts. `OwnNumbers`: numbers below
256 (`HostNetMask`), and files in which every tunnel but the first states them
(`HostNetMixed`, `HostNetShift`), one for table and mark as `addTunnel` writes
them. `OwnTables`: nft names differ (`HostNetDash`), and marks of seeds are no
tunnel's. `StartsAgain` and `MemoryIsFile` need only the first, the routes the
second, nft the third. The instance that `HostNet.cfg` checks satisfies all of
them, and so do those of `StoreRivals.cfg` and `ShareLinks.cfg` theirs.

`SingBoxAdminProofs`, for every set of requests, entries, tunnels, users, ports
and starts. Its first half says what each operator of `SingBoxConf` does to rules
and outbounds; `ChangedCases` ties the ten kinds of request to them, so that an
invariant is proved once per operator and not once per request. Then, each
resting on those before it:

* `TypeCorrect` (`TypeOK`), without any assumption on use. `TypeInv` adds what a
  request holds at each of its steps, and that the files written so far are those
  of its new configuration.
* `UsersAlwaysFirst` (`UsersFirst`), likewise for any number of handlers at once
  and all faults: `OrderInv` says it of the files and of what a handler is about
  to write. `route.json` is one file, so the order never depends on the others.
* `UsersAlwaysFollow` (`UsersFollow`), if requests take turns and what they write
  is written whole (`Intact`: no file fails to be written, and nobody is killed
  meanwhile; also assumed of the next three, which TLC refutes without it, whereas
  it finds no such instance for this one). `LinkInv`: rules
  and outbounds agree (`Linked`) except between `outbounds.json` and `route.json`;
  without it an outbound could be left over that a batch would then meet.
  `FollowInv`: the tunnel a batch read before the lock is still its entry's.
* `NothingLost` (`NeverLost`), if requests take turns and sing-box restarts when
  told to. `CopyInv`: a handler's copy of the disabled list is as good as the
  list; `KeepInv`: what it is about to write has all inbounds but a deleted one.
* `NothingDangles` (`NoDangling`) and `EntriesAlwaysProtected`
  (`EntriesProtected`), under the same. `OwnInv`: every outbound has its inbound
  in one of the lists, also in what a handler and a synchronisation's jobs hold.
* `RivalsLeaveNothing` (`NoDangling`), for any number of handlers at once and all
  faults, failing writes and kills included, if nothing is ever disabled
  (`EnabledOnly`: the requests are bind, unbind, add, delete and batch): the list
  of disabled inbounds is the only thing that the lock does not protect. `RivalInv`
  says of the files, and of what the holder of the lock is about to write, that an
  inbound outside `torn` has its rules and outbounds in step, save that the
  holder's own may be half written; a handler builds on what an earlier one left
  torn, but `Attach`, `Detach` and `AttachUsers` touch no inbound but their own, so
  that nothing spreads.
* `OutboundsAlwaysFresh` (`OutboundsFresh`), if requests take turns and wait for
  a restart that is due, and nothing fails. `FreshInv` follows one request from
  what it read to its answer (`Underway`): what `tuns` and `live` differ in is the
  tunnel of a clone or a deletion, and an outbound of another port is one that a
  job of the synchronisation under way will rewrite.

`SingBoxAdmin.cfg` and `SingBoxRivals.cfg` satisfy these hypotheses. Section 5
lists what TLC finds when one is dropped.

All three use `SeqPickProofs`: `Pick`, the loops that rebuild a slice from what
they keep, returns a sequence of the kept members, each once and in their order.

The proofs assume what the modules' ASSUMEs say of the constants, nothing else
than what a theorem's own ASSUME adds.

Every invariant and every action property of a passing run is proved. Only
model-checked is liveness: `SetupEnds`, `IdleReaped`, `ReapedLeavesIface`,
`GraceIsFinite`, `GoroutinesEnd`, `RulesReturn` and `ServesAgain`. Liveness under
fairness is out of the prover's reach and stays with TLC. The modules declare no
RECURSIVE operator.

## 5. What does not hold

The three violation runs are findings: a comment or document and the code disagree.

* `StoreRivalsGhost`: `delTunnel` drops accounts from a store of its own; the
  running proxy saves them back with its next connection (`admin.go:511-514`).
* `SingBoxLost`: when sing-box fails to restart after its files were written,
  `delTunnel` does not save the list of disabled inbounds, and the entries moved
  to it are nowhere (`admin.go:518-531`).
* `ShareLinksClone`: a cloned entry has no line of its own, so after a batch the
  first line at its port is a node's, and a port change writes the entry's own
  credentials into it (`singbox.go:866-867`), although `src/README.md:100` says
  that the lines of nodes already handed out are taken along.

Other promises the code keeps only in the use the passing runs assume. Each has
its property in the module and is refuted by TLC with the change named:

| property | change to the constants | what happens |
|---|---|---|
| `StickyEgress!ReapRetried` | `StickyEgressRetry.cfg`: saves fail, fair | a reaping that could not be saved is never saved (`allocator.go:164` says it is) |
| `StickyEgress!UsedNotReaped` | `StickyEgressUsed.cfg`: none | an account with one long connection is reaped |
| `StickyEgress!ProtectedKept` | `Faults = {"scan"}` | entries lose their account when the sing-box files cannot be read |
| `StickyEgress!BindSucceeds` | `Faults = {"flap"}` | the cache survives an interface restart |
| `StickyEgress!NoStrayAddr` | `Faults = {"del"}` | an address `ip addr del` failed on stays until the next start |
| `StoreRivals!AnswersOnDisk` | `Quiet = FALSE`, `Faults = {"crash"}`, unregister | `--unregister` overwrites what the proxy saved |
| `StoreRivals!EgressAlways` | `StoreRivalsDefault.cfg`: the default changes; likewise a /64 replaced | addresses of one /64 leave through another tunnel |
| `AccountStore!AddrsUnique`, `OneOwner` | a seed inside the sticky range, a file in which its address is taken | the later seed shares an account's address |
| `EphemeralPool!AvoidsSticky` | `EphemeralPoolSticky.cfg`: `Random` holds a sticky identifier | a draw hits a sticky account's address |
| `ProxyConn!OnlyIdleCut` | `ProxyConnIdle.cfg`: `Idle = 2`, two reads | one-way transfers are cut |
| `TunnelConfig!StartsAgain` | without `careful` | a tunnel added twice, or the new default deleted, before the restart: the file is refused |
| `TunnelConfig!StartsAgain` | `HostNetKill.cfg`: a kill inside `writeYAMLDoc` | the file is left empty |
| `TunnelConfig!StartsAgain`, `MemoryIsFile` | `Events = {"error", "write"}` | the same when `writeYAMLDoc` fails after it has truncated the file |
| `HostNet!ServesAlways` | in `HostNet.cfg`, for `ServesAgain` | an interface that `Down` failed to remove holds the routing table since given to another tunnel: `wg-quick up` fails at every start |
| `TunnelConfig!TunnelsApart` | `HostNetOverlap.cfg`: two requests at once | equal numbers |
| `TunnelConfig!TunnelsApart` | `HostNetMixed.cfg`: some numbers left out; `HostNetMask.cfg`: mark 255 | equal numbers after a deletion; a mark of 0x100 |
| `HostNet!EgressRouted` | `HostNetShift.cfg`: numbers left out | they move when a tunnel goes, the interfaces keep the old ones |
| `HostNet!StickyUntouched` | `HostNetDash.cfg`: names that differ in `-` and `_` | two tunnels share one nft table |
| `SingBoxAdmin!UsersFollow` | two requests, batch and bind | new nodes on the old tunnel |
| `SingBoxAdmin!NeverLost`, `NoDangling`, `EntriesProtected` | two requests that disable entries | each saves its own copy of the disabled list, the other's entry is in neither list |
| `SingBoxAdmin!NoDangling`, `EntriesProtected` | `Faults = {"restart"}` | an entry being disabled when sing-box does not restart is in no list, its outbounds stay |
| `SingBoxAdmin!NeverLost`, `NoDangling`, `EntriesProtected`, `OutboundsFresh` | `Faults = {"write"}` or `{"kill"}` | a handler stops between two files, or before the list of disabled inbounds is saved |
| `SingBoxAdmin!AlwaysProtected` | `SingBoxReap.cfg`: none | an entry being disabled is unprotected while sing-box restarts |
| `SingBoxAdmin!OutboundsFresh` | requests while a restart is due | a cloned entry keeps the old port |
| `SingBoxAdmin!OutboundsFresh` | `Faults = {"check"}` | the port of `listen` is saved, the outbounds are not changed |
| `SingBoxAdmin!OutboundsFresh` | `Faults = {"restart"}` | the entry lost as above keeps the old port |
| `SingBoxAdmin!OutboundsFresh` | two requests, both sync | the second finds nothing stale, then the first writes the former port |
| `ShareLinks!LinksOpen` | `ShareLinksSocks.cfg`: the port of a socks entry changes | its line loses the user name |
| `ShareLinks!NodesLinked` | `ShareLinksStale.cfg`: a batch while the port changes | links with a port read before the lock (`batch.go:89`) |
| `ShareLinks!NodesLinked` | `ShareLinksRemoval.cfg`: a batch during a deletion | its lines are overwritten (`admin.go:773`) |
| `ShareLinks!NodesLinked` | `ShareLinksNames.cfg`: a disabled entry's name or port is given to another | nodes of one are taken for another's |
| `ShareLinks!NoOrphansEver` | `ShareLinksCheck.cfg`: sing-box refuses | the line of an entry that was not added stays |

## 6. Not modelled

The bytes of SOCKS5 and netlink messages and of links: parsing and layout.
Login and sessions: a cookie check and a counter per address that nothing else
depends on. UI, environment check, tests. Power loss below the rename of
`accounts.json`. Scalar settings of the configuration. The seeding and the
`ip addr del` of `--unregister`. That systemd may start a deleted interface of the old
set-up again when the machine boots. A rule that
`ensureRuleLoop` adds again between `Down` and the restart.

Error paths left out. Writes of `url.txt`, and of the WireGuard files by
`addTunnel` and `putTunnel`, always succeed; so do those of a copy that sing-box
checks, other than by `Refuse`, which has the same effect. `putTunnel` is modelled
with keys that make no difference: when its `wg-quick down` fails, the interface
keeps the former keys until it is restarted. A command of `Down` that fails fails
in PostDown as well, and the wg-quick files of all tunnels are taken to ask for
the default route. Failing writes of config.yaml come with `HostNet`, those
of the sing-box files with `SingBoxRivals`; the two are not composed, and
`SingBoxAdmin`, with requests in turns, has neither, nor kills between `writeSB`
and `saveDisabled` (section 5). In `ShareLinks` the three sing-box files are one
step, a saved list of disabled inbounds is not distinguished from them, and the
process is not killed; a socks entry is cloned as `addInbound` does it, with a
line, whereas `cloneVLESSForTunnel` adds none.

## 7. Plan

Done: the store, the egress with its refinement, rivals, pool, relay, configuration
and host networking, sing-box files and share links, with a theorem for every
invariant and action property that a passing run checks. Next, in this order:

1. `SingBoxAdmin` and `ShareLinks` composed: one set of entries, disabled ones
   included, with outbounds, rules and lines.
2. `AdminLogin`: the window of failed logins.
