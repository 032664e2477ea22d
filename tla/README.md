# LAS in TLA+

LAS is a router control plane: one JSON document describes a Linux router, the
daemon `lasd` validates it, makes a plan of commands and files from it, and runs
the plan. This directory models how that document is kept and edited, how plans are
run, what a sequence of plans, complete or not, makes of a host and of the packets it
forwards, and how the proxy cores are updated. The modules are
checked by TLC on small instances, and the theorems in the `*Proofs` modules are
checked by TLAPS for every value of the constants.

## The system

| Component | Code | State it keeps | Operations | Hard because of |
|---|---|---|---|---|
| Configuration file | `internal/config/config.go` (Load, Save, Init), `internal/web/server.go` (handleConfig), `cmd/lasd/main.go` | one file, a temporary file per Save | GET, PUT, `-init-config`, `-validate`, `-plan` | several processes and goroutines without a lock; every system call may fail; kills |
| Executor | `internal/control/executor.go`, `plan.go`, `handleApply` | none of its own; it changes files and kernel objects | Execute, dry or real | overlapping requests, a 90 s timeout, closed connections, shell snippets, restarts |
| Policy rules | `internal/router/nft.go`, `builder.go` (addRoutingPlan, addWANGroupPlan, addTunnelPlan) | nftables table, ip rules, policy routing tables | render, load, `ip rule`, `ip route`, source NAT | plans over what earlier plans left; three chains for one list of rules; two address families; links that go down |
| Input chain, destination NAT | `nft.go` (writeInputChain, writeDstNATChain) | the same nftables table | render, load | families: `dnat to` in a table of both |
| Host plan | `builder.go` (interfaces, tunnels, layer 2, VRFs, services) | links, addresses, routes, profiles, units | the steps of a plan in its order | services that make links later; boots; steps that undo earlier ones |
| Validation | `internal/config/validate.go` | none | Validate | cross references only; no look at order or at other fields |
| Web UI | `web/app.js` | the browser's copy of the document | load, Reload, Save, Preview, Apply | stale copies, overlapping clicks, cut off and late answers, the fallback of the first load |
| Core updater | `scripts/update-cores.py`, `las-update.sh` | binaries, a state file each, services | download, install, record, restart | kills between steps, concurrent runs with one temporary name |
| Read-only handlers | `server.go`, `control/status.go` | none | plan, status, diagnostics | nothing that keeps state |
| Installer, units | `scripts/install.sh`, `systemd/` | none | one-shot | nothing that runs twice at once |

The UI talks to the daemon by HTTP: it PUTs the document to be saved and, in a
separate call, POSTs a document to be applied. The two need not be the same:
`handleApply` plans the body of its own request, and loads the saved document only
for an empty body. `BuildPlan` is a function of the document; the host is changed
by the executor alone, one step after the other, by running `ip`, `nft`, `sysctl`,
`systemctl` and `sh -c` snippets, so components interact through the kernel, through
`/run/las/nftables.conf` and through the units that systemd starts.

What makes each part correct: the file is always a whole valid document and a
reply says what happened to it; a report says which steps were done; a sequence of
applies leaves what the last one asked for; the chains, ip rules and tables together
send a packet where the first matching rule says; a plan the validation accepts can
be run, and what it asked for is there afterwards; an edit that was confirmed is not lost
to somebody who did not see it; an installed core is whole, its recorded tag is true and
its service runs it. `PROJECT.json` lists each
hazard at its line with the properties that cover it.

## Modules

- `ConfigRegister` is the promise of the configuration file: a register of one
  document with calls that take effect whole or not at all, at one instant between
  call and answer.
- `ConfigStore` is the code: Load, Save and Init one system call at a time (`read`,
  `check`, `admit`, `stat`, `create`, `write`, `finish`, `rename`, `cleanup`), with a
  failure action for each, kills of the daemon or of a command line, and an
  administrator's editor. `Torn` stands for bytes that are no document. It
  implements `ConfigRegister` (`ImplementsRegister`, an INSTANCE with a refinement
  mapping: the `rename` and the `read` are the instants).
- `Executor` runs plans: `Request` (handleApply), `Preview` (dry run), `CreateTemp`,
  `FillTemp`, `Rename` and `WriteFails` (writeFile and its deferred Remove; each run has its
  own temporary file, which holds `Torn` bytes until it is filled),
  `Start`/`Exit`/`KillChild` (runCommand), `Effects` (one program of a command),
  `Drain` (the program a killed shell leaves behind), `Cancel` (timeout or closed
  connection), `Stop` (the daemon ends). A kernel object is the set of values it
  has, so two ip rules at one priority are a set of two. The policy file and the
  table are shared by all runs.
- `PolicyRules` (operators only) renders a configuration: which lines the prerouting
  and forward chains get for a rule (`MatchExprs`, with the route sets, ports and CIDR
  lists), which mark an action sets, the source NAT lines of the postrouting chain
  (1:1 NAT, links, rules that ask for NAT), and which `ip rule` and `ip route` commands
  a plan has, in order.
- `PolicyRouting` applies configurations one after the other, command by command,
  over what is there, with aborts and boots anywhere. `Fate` is what chains, rules
  and tables do with a packet at that moment; `IntendedFate` is what the rules of the
  document say, written without the code's detour over expressions and marks. `Source`
  is the address a connection leaves with. `DevsOver` is where a packet goes when some
  links, and their routes with them, are gone.
- `HostPlan` (operators only) is the plan as far as links, addresses, routes and services go,
  in the order of `BuildPlan`, the links Validate knows, and what a link does in the
  kernel when it is raised, lowered, enslaved or removed. Of an address the family is kept:
  a gateway needs one of its own family on its link, and a link that goes down loses its IPv6
  addresses (`keep_addr_on_down` is 0) and keeps the IPv4 ones. A tunnel the plan creates may
  run over another link (`under`, from `options.dev`), which has to be there by then.
- `Host` applies such plans to a host: one action for each kind of step, `Refused`
  when the host cannot do the step, `Fail` when it could have, `Slip` when a program of a
  snippet fails that is not the last, so that the step is reported `ok`, `Appear` and
  `Vanish` for the devices of services, `Boot`. A snippet that is refused or cut short may have
  done its first programs (`Begun`). A link that is not `Ethernet` (a layer 3 tunnel) may be
  refused as a member by a bond or a bridge without anybody noticing (`taken` in `Enslave` and
  `Join`). When a service's link goes, tunnels over it go along (VXLAN) or stay (GRE).
- `Updater` is `update-cores.py` file by file: `FetchRelease`, `LeaveCurrent`,
  `WouldUpdate` or `StartUpdate` (the decision of `update_core`), `OpenTemp`, `FinishCopy`
  and `Replace` (`install_binary`), `TruncateState` and `WriteState` (`write_state`),
  `RestartService`. A file is the releases its bytes come from and the run that is still
  writing it; a descriptor stays with its file when the name moves (`Moved`, `Unlinked`).
  Around it: new releases, failures, kills, boots, and an administrator who removes a binary.
- `WebUI` is the pages of `app.js` over `ConfigRegister` (an INSTANCE, the register doing
  the daemon's part): `Open`, `Reload`, `Edit`, `Save`, an answer that arrives (`Loaded`,
  `Saved`, `Failed`), is cut off (`Disconnected`), cannot be rendered (`Unrendered`), or comes
  after its page has gone (`Unheard`), and the fallback of the first load (`ShowDefault`,
  `LoseDefault`). `kept` and `turn` are history: what was confirmed, and whose turn it is.
- `MCConfigStore`, `MCExecutor`, `MCPolicyRouting`, `MCHost`, `MCUpdater`, `MCWebUI` are the
  instances for TLC.
- `ConfigStoreProofs`, `ExecutorProofs`, `PolicyRoutingProofs`, `PolicyInForceProofs`,
  `HostPlanProofs`, `HostProofs`, `UpdaterProofs`, `WebUIProofs` hold the theorems.

The web UI stands on the register, and the register is what `ConfigStore` is shown to
implement; `PolicyRouting` and `Host` look at the same plan from two sides, each with one
apply at a time, and `Executor` at what several applies do to each other.

A definition that stands before another one and is used nowhere is a mutation of it: a
plausible bug with which the property named in `PROJECT.json` fails.

## Runs

| Run | Instance | Shows |
|---|---|---|
| `store` | one handler, one command line, two valid documents, one invalid | the file system calls implement the register; the program only ever replaces the file by whole documents; "saved" means saved; every call returns |
| `store_init` | the same, no file at first | **violated**: `-init-config` overwrites a document saved after it looked |
| `executor` | two plans with a policy rule, the file and the load | faithful reports; the table is missing only in the gap between delete and load; whichever system call of a write fails, no path holds part of a file; serial applies are exact and repeatable |
| `executor_live` | three plans, one dry, steps `Execute` rejects | a dry run changes nothing, every request is answered |
| `policy` | pairs of seven configurations, and 600 rules (300 combinations of match fields, with a tunnel and with a drop); 34 packets | marks are those of the first rule; packets do what the document says after a complete apply, and are never sent to an interface nobody meant; the members of a failover group back each other up; a rule's NAT holds on every link its packets may leave by, whichever links are lost |
| `policy_order` | one configuration | **violated**: a later drop wins over an earlier forwarding rule |
| `policy_stale` | two configurations | **violated**: a rule of the first configuration routes packets of the second |
| `host` | three configurations (failover with a VPN; bond, bridge and VLAN; VRF and MPLS) | only a missing service device, or a conntrack module nobody has loaded, can stop a plan; success means configured; services start with their new profiles; retries succeed |
| `host_order` | a route over a VLAN | **violated**: a plan that Validate accepts is refused every time |
| `updater` | two cores, the daily run and an administrator's | without overlap an installed binary is whole and a recorded tag is never ahead of it, wherever runs are killed; a replaced core's service is restarted; everything is up to date in the end |
| `updater_overlap` | the same | **violated**: of two runs one installs what the other is still writing |
| `webui` | two browsers, two calls at a time, three documents | what administrators who take turns have saved stays saved, whatever fails, is cut off or falls back |

Each violated property states what a document or comment of the repository says;
`findings` in `PROJECT.json` quotes the line.

Three limits are premises of properties, for they are how the code works: applies that
overlap share the policy file and the table, so one may load the other's policy
(`SerialApplyIsExact` is about runs that do not overlap); `ip rule` is run for IPv4 only, so
a marked IPv6 packet is routed by table main (outside `PolicyInForce`); and failover
members of equal priority replace each other's route (`FailoverBacksUp` is about plans that
set each route once, `RoutesOnce` in `Agreeing`).

### Bounds, and why they are enough

- `store`: the processes share the file and nothing else, so every interference is
  one between two system calls of two processes; an editor may write anything in
  between. Three documents tell "mine", "another" and "invalid" apart.
- `executor`: plans share the policy file, the table and the priorities. Two runs show any
  interleaving of two loads, and the third one what a later run finds. A plan has one
  step of each kind that differs in what it does. Each run is requested once; a
  sequence of requests is a set of runs.
- `policy`: what a configuration leaves behind are routes, ip rules and chains, each of
  which the next configuration overwrites, keeps or shadows; two configurations in
  a row, each cut short anywhere, show every such pair. The combinations of match fields
  are applied alone and without groups, because rendering depends on neither. The 34 packets
  cover both families, in and outside the sets and ports, from two links, and the states of a
  connection. Every set of links may be lost.
- `host`: `MaxTrouble` bounds failed steps, slips, lost tunnels and boots; with one of them
  anywhere there are about 174 000 states. Applies are not bounded: any sequence of the
  three configurations is covered. One failure is enough for what the properties are
  about: a step that meets what a cut-short apply left behind. Addresses of both families stand on
  links that are enslaved, attached to a VRF or carry a VLAN, and the GRE tunnel runs over a port. Routes, links and units
  are per configuration, and the three configurations between them take every kind of step.
- `updater`: a release more than the first tells old from new; the administrator's command
  lines are a forced one and a dry one; one failure, kill, boot or removal (`MaxTrouble`) falls
  at any point. Runs interfere through the files of one core only, so two runs and two
  cores show each interference, and a core that has none next to it.
- `webui`: a browser interferes with itself (two clicks) and with another one; two
  handlers are enough for two calls that overlap. The documents are the default one, the
  site's own and one with an edit more, which leaves out a list the dashboard needs. Nothing
  else is bounded: pages are opened, saved and reloaded for ever.

### Fairness

- `ConfigStore`: a process with a system call to make makes it (weak fairness per
  process). Nobody has to call.
- `Executor`: the goroutine goes on, the timer of handleApply fires, and a program
  started by a shell snippet ends, for these are `ip`, `nft`, `modprobe`, `install`.
  A command run directly (certbot, systemctl) may hang; the timer kills it.
- `Host`: the executor takes the next step, and a unit that runs brings its device up
  some time after it is gone. Nobody has to apply: `RetriesSucceed` says that who
  applies again and again succeeds. Its premise `<>[]tracked` is needed: the step that
  sets `nf_conntrack_max` is the first and fails until `nf_conntrack` is loaded, which
  the last step would do.

- `Updater`: a run that is not killed goes on, and the timer fires every day.
  `EventuallyUpToDate` is about executions in which runs do not overlap and none is stopped
  while it rewrites a state file: a state file that is no JSON stops every later run at
  `read_state`, and nothing repairs it.
- `WebUI`: none; its property is a safety property, and nobody has to click.

Deadlock is checked except for `Executor`, whose runs are requested once and may all
have ended.

## What is proved

The constants are arbitrary: any numbers of processes, documents, runs, plans and
configurations, under the named assumptions of each module.

- `ConfigStoreProofs`. `Inv` adds to `TypeOK` how far each process has got
  (`ProcInv`): a process past `admit` carries the valid document of its own request,
  and from `finish` on its temporary file holds just that. Nothing is said of the
  file, which an editor may change at any time. From it: `TypeCorrect`,
  `SavedIsStored`, `Replacements` (the file is replaced by valid documents only) and
  `Refinement`, every step being a step of the register or a stutter.
- `ExecutorProofs`. `RunInv` ties the program counter of a run to its results and
  to the effect it is at. `UnprotectedOnlyInLoadGap` is not inductive: it speaks of
  runs that have ended, and must hold from the moment the load succeeds;
  `GapInv` strengthens it so (`Loaded`). `NoTornPolicy` is not inductive either, for a rename
  puts under a path whatever the run's temporary file holds: `Whole` says what that is at each
  point of a write (nothing, `Torn` bytes, or the step's own text once Write, Chmod and Close have
  succeeded), and `Untorn` then follows for paths and table. From these:
  `TypeCorrect`, `FaithfulReports`, `Protection`, `WholePolicies`, `DryRunPurity`.
  Its second part is about applies that do not overlap, where no shell has hidden a
  failure: then only the run started last is at work (`SoloInv`) and a priority never
  holds two rules (`SingleInv`), so the delete before an add always leaves it empty
  (`ReadyInv`) and no add is refused for what an earlier run left. What a run has written is
  there for its load (`WriteInv`): a failure has a reason (`FailInv`), which is
  `SerialSucceeds`. In a plan that sets every file and object once (`SetsOnce`) no effect
  undoes an earlier one (`NothingUndone`), so what a run has done so far is there
  (`DoneInv`): `SerialExact`. Besides the shape of plans (`PlanAssumption`) both rest on
  `RepeatAssumption`: `ip rule` is used in pairs of delete and add only, and a plan writes the
  policy it loads.
- `PolicyRoutingProofs`. `OneRule`: commands run from the first to the last
  (`RestOfPlan`), and a priority about to be filled has been emptied or is about to be
  (`Emptied`); so a priority never has two entries when applies do not overlap, wherever they
  stop. `FirstRuleMarks`: the expressions rendered for a rule match exactly what its
  fields say (`RenderingIsExact`, from one lemma for each kind of field), so the first
  line that matches is that of the first rule that applies, for every configuration
  whose given fields are rendered.
- `PolicyInForceProofs`. `SeenInv` says which configuration the chains, the rules and the
  routes are from. Among configurations that agree on what a table is for, a route never
  takes the place of another (`SlotsAgree`), so the routes of the loaded configuration
  stay (`RouteInv`), and its tables hold nothing else (`TableIsOwn`); the ip rules a plan
  has put stay until it is done, because no two of its rules have one priority
  (`RulesInstalled`). A mark then leads to the target of the rule that set it, whichever
  plan put the ip rule there (`MarkLeadsToTarget`): `NoneMisrouted`, at every moment. After a
  complete apply the interfaces are just those meant (`DevsInForce`), and the forward chain
  drops just what it should (`DropsAsMeant`): `PolicyHolds`.
  Its second part is about lost links. A lost link takes itself out of its routes (`WithoutIs`). The table of a
  group holds one route for each member and no other, those of earlier plans included
  (`GroupRoutesThere`), so the best of what is left is the first member that is left:
  `Failovers`. A marked packet finds no table but that of its rule, so what it leaves by is a
  link of the rule (`NatLinkIsOfRule`), for which there is a line; the first line that holds
  is then that of the first 1:1 entry that does, or one that leaves the source to the link
  (`SourceIs`): `NatFollows`.
- `HostPlanProofs`. A plan is a concatenation of concatenations, folded by `FlattenSeq` over the
  lists of the configuration. From the library's theorem that the order of the naturals is
  well-founded, in the form that every set of them has a least element (`LeastNatural`), follow
  induction over a set of naturals and then what a flattened sequence inherits from its parts
  (`FlattenInduction`). What a step needs of the steps around it is `Fits`: a
  profile is followed by a start of the unit that reads it; and in a configuration the order
  serves, what the step works on was made, set up and addressed (in the family of the gateway, if
  it is a route with one) by then, or is in the machine, or is a service's; the link a tunnel runs
  over and the parent of a VLAN included. A block of steps that fits after the steps `E`
  (`Part`) goes on with one that fits after both; so `PlanInOrder`, from a lemma for each
  kind of block. That all routes come before any link gets a master (`PlanRoutesFirst`) is
  what makes the loss of IPv6 addresses harmless for them.
- `HostProofs`. `Sane` is `TypeOK` with where an apply stands: `TypeCorrect`, from what each
  kernel operation does to links, masters, parents and routes (`Changed`, `Asked`). A
  unit with one start in the plan is stopped up to it and then has read what is on disk
  (`ReadAtStart`), which no later step writes, for a start would follow: `FirstStart`.
  On any host, after any plans and boots, profiles ask for links of services only
  (`Supplies`); links in the machine are there, links stand on what their names say, and a
  service's link is up and has its IPv4 address as long as it is there (`Rooted`). On top of that,
  what the plan has made, set up and addressed so far is still so, but for links of services and,
  from the first enslaving or attaching on, IPv6 addresses (`Ready`, `Prepared`): neither a step of
  the plan nor a vanished tunnel takes a link that the plan builds on. With `PlanInOrder` and
  `PlanRoutesFirst`, a step that is refused misses a link of a service, or is the conntrack step
  and misses the module: `HostBlocks`.
  The same facts show that a step that is in place stays so unless a later one takes it back
  (`Configured`, by `KeptInPlace`; a link may go down for a moment, under a route or an IPv6
  address, only by a step that counts as taking it back), and that a member of the `Ethernet` kind
  has its master unless a program was failed (`Grouped`): `SuccessMeansConfigured`. The assumptions are
  `ConfigAssumption` (types, and that the values for "none" are no configurations) and
  `ProfileAssumption` (what a part of a configuration writes is for the unit it starts).
- `UpdaterProofs`. The invariant has a part for each run alone (`LocalInv`), one for each
  core's state file (`RecordedInv`), one that holds while runs do not overlap (`SerialInv`:
  the temporary file is that of the one run, and whole once it is closed) and one about
  restarts that are still ahead (`ServiceInv`). From these: `TypeCorrect`, `SerialInstall`,
  `SerialTag`, `OldServiceRestarted`.
- `WebUIProofs`. `CallInv` and `SaveInv` tie the calls under way to the register; `CopyInv` and
  `TurnInv` say that, while administrators take turns, the copy of the one whose turn it is
  holds all that was confirmed. From these: `TypeCorrect`, `CarefulEditsKept`.

Every safety property that a passing run checks is a theorem. Only model-checked are the
liveness properties (`EveryCallReturns`, `EveryApplyEnds`, `RetriesSucceed`,
`EventuallyUpToDate`), which the prover cannot do.

## What is abstracted, and what is not modelled

- File system: `os.CreateTemp` names are unique; a rename is atomic. Neither `Save` nor
  `writeFile` calls fsync, so what a power loss leaves is the file system's affair and not
  modelled; kills of the daemon are. Write, Chmod and Close of one plan file are one step of
  `Executor` with one failure, for nobody else can look at the temporary file, and the deferred
  Remove is a part of it. `Host` takes a write as whole, which `NoTornPolicy` shows.
- Executor: `SerialApplyIsExact` speaks of plans that set every file and object once, which
  those of `BuildPlan` do unless a configuration names one thing twice. A stop kills the
  control group, children included. Dry runs may be
  served by another daemon than real ones.
- Policy: one apply at a time (overlaps are `Executor`'s); table main is one device;
  packets are new, established or invalid; reject is a drop; logging and the IPS queue are
  left out. Names in the rendered file are taken for different when those of the document are:
  `nftIdentifier` could fold two names into one (`a-b` and `a.b`). Source NAT is by outgoing link, as the code writes it: a rule that asks for it
  masquerades all that leaves by its links, and one whose action is `direct` and names no target
  asks in vain. Destination NAT is not modelled, because what `dnat to` means in a table of
  both families depends on the nft release; nor is the input chain, whose lines a property
  could only repeat.
- Host: one apply at a time; of the addresses of a link, which families it has; VLANs are not
  stacked, and DHCP is somebody else's. That a service brings its link up with an IPv4 address
  (the model gives it both), that a VLAN follows its parent, that a VRF takes a link down for a
  moment and that a link that goes down loses its IPv6 addresses are the kernel's and the daemons'
  behaviour. A bond or a bridge takes the links in `Ethernet` unless a program fails.
  `OnlyHostBlocks`, `AppliedMeansConfigured` and
  `RetriesSucceed` are about configurations the order of the plan serves (`Served`) and
  for which a link's name means one thing (`Alike`: plans that create a link put it on
  the same parent, and what plans create, services bring up and the machine has bears different
  names); `ValidPlanRuns` shows what happens to others.
- Updater: releases only grow; `read_state` and the look at the target are one step, as are
  copystat, chmod and the rename; a state file is written in one call after it was
  truncated. A failing download, a bad archive and a failing `las-update.sh` are `Fail`.
- Web UI: a document is the set of edits in it; Preview and Apply change neither the copy nor
  the file. Care is what an administrator can see to: nobody has asked for the file since,
  no call is under way, and the last message was no error.
- Not modelled: the text of profiles, the syntax checks of Validate, the trusted CAs and the
  metadata of the certificate store, the read-only handlers, the installer. Of the requests to
  Let's Encrypt only this is modelled: where they stand in the plan, and that they may fail.

## Plan

Left:

1. Destination NAT, once the repository fixes the nft release it is for.
