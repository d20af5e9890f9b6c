# A verification development for shim

shim is the first-stage UEFI boot loader that lives between the firmware's
Secure Boot and a distribution's own loader. This tree has a variant with a
remote ("keyless") verifier. It is small, sequential C, but it runs inside a
machine that can lose power at any call, shares the boot-services table and
the variable store with other programs (and with other copies of itself), and
promises things that only show over several boots. That is what is modelled
here: nine state machines checked with TLC, and an abstract specification that
two of them are shown to implement. Every safety property of all nine is proved
with TLAPS, for every value of their constants.

    cd tla
    tlc -workers 2 -config SbatLevel.cfg MCSbatLevel
    tlapm SbatLevelProofs.tla

Each run below is one `.cfg` over one `MC` module (`HttpFetch` needs none).

## 1. The system

| Part | State it keeps | Operations | Talks to |
|---|---|---|---|
| **SBAT level** (`sbat.c`, `shim.c`, `pe.c`) | variables `SbatLevel`, `SbatPolicy`; globals `sbat_var`, `sbat_policy` | `set_sbat_uefi_variable` (from `efi_main`, and again for each `revocations.efi`), the self-check, `verify_sbat_section` | the store, add-on files, the verifier |
| **Hooks and protocol** (`replacements.c`, `shim.c`) | `system_*` saved pointers, `loader_is_participating`, `last_loaded_image`, the lock protocol | `hook_/unhook_system_services`, `shim_init`, `shim_fini`, `load_image`, `start_image`, `do_exit`, `exit_boot_services` | the firmware's tables, second stages, nested shims |
| **Image verification** (`shim.c`, `pe.c`, `tpm.c`, `keyless-sign.c`) | `verification_method`, `measureddata`, PCRs | `verify_buffer_authenticode`, `verify_buffer_sbat`, `tpm_log_pe`, the remote verifier | databases in the store, the TPM, the network |
| **MOK mirroring** (`mok.c`) | the volatile `...RT` copies, the configuration table, `user_insecure_mode`, `ignore_db`, `trust_mok_list`, `mok_policy` | `import_mok_state`: `import_one_mok_state`, `mirror_one_mok_variable`, `mirror_mok_db`, in two passes | the store, the TPM, the operating system |
| **MokManager** (`MokManager.c`) | the request variables `MokNew`, `MokDel`, ... and their password hashes, the lists `MokList`, `MokListX` | `check_mok_request`, `enter_mok_menu` and its prompts | the user, `mokutil` on the running system |
| **SkuSiPolicy** (`sbat.c`) | the variables `SkuSiPolicyVersion`, `SkuSiPolicyUpdateSigners`, `SSPPolicy` | `set_ssp_uefi_variable` (from `efi_main`, and again for a `revocations.efi`) | the store, the Windows boot manager |
| **Fallback** (`fallback.c`) | `Boot####`, `BootOrder`, `FB_NO_REBOOT`; the order and the first option in memory | scan of the CSV files, `find_boot_option`, `add_boot_option`, `update_boot_order`, countdown, reset | the firmware's boot manager, the user |
| **PE loader** (`shim.c`, `pe.c`, `pe-relocate.c`) | the buffer of the file, the pages of the program and their attributes, shim's own loaded-image record | `start_image`, `handle_image`, `generate_hash`, `relocate_coff`, `update_mem_attrs` | the verifier, the firmware's memory attribute protocol |
| **HTTP client and remote verifier** (`httpboot.c`, `http-request.c`, `keyless-sign.c`, `netboot.c`) | `uri`, the method and body of the next request, the callback flags, the child handle | `httpboot_fetch_buffer`, `send_http_get_request` over all interfaces with retries, `osign_http_request` | the firmware's network protocols, the verifier, the read of add-on files |

How a boot goes: `efi_main` brings the SBAT level up to date and checks
itself against it; it loads add-on files from its directory (which may update
the level once more); it imports the MOK variables, and starts MokManager if
the operating system left a request; it hooks the boot services and installs
its protocol (`shim_init`); it verifies, measures and starts the second stage
(`init_grub`), falling back to MokManager and trying again when a stage is
refused; when the stage comes back, everything is undone (`shim_fini`).

What is hard here is hardly concurrency (there is one thread, and the firmware
calls back only for the HTTP requests) but:

* **power cuts and failing calls** between two writes that belong together;
* **callbacks and nesting**: the second stage calls back into hooks and the
  protocol, and may be another shim, with the same table;
* **one-shot requests** that must be carried out exactly once over boots;
* **global results** (`ret_efi_status`, `sbat_var`, `verification_method`)
  that are kept while the next thing is tried;
* **limits**: databases larger than the largest variable, offsets that wrap;
* **two views of one thing**: the bytes that are hashed and the bytes that are
  loaded, a version and the signers that belong to it.

Each of these is listed with its line under `hazards` in `PROJECT.json`, with
the properties that would catch it.

## 2. The modules

Every module names its operators as the source names its functions. Line
numbers of each definition are in `PROJECT.json`. A definition whose comment
starts with "Mutant:" is a plausible bug next to the definition it would
replace; it is not part of the model.

### SbatLevel

The variables are the store (`level`, `policyVar`), where shim is (`pc`), what
kind of boot it is, the locals of a call of `set_sbat_uefi_variable` (`caller`,
`candidate`, `reset_sbat`, `status`), the global `sbat_var`, and the histories
`bootLevel`, `addons`, `started`. Each variable call of the function is an action
of its own, since power can go between any two: `ReadPolicy`,
`clear_sbat_policy`, `ReadLevel`, `DeleteLevel`, `WriteLevel`, `ReadBack`.
`SelfCheck`, `LoadUnbundledTrust`, `LoadCertFile`, `ImportMokState` and
`StartSecondStage` are the places where `efi_main` uses the result.
`PowerLoss`, `PowerOn`, `OsSetPolicy` and `Reboot` are the environment.

A payload is its format version, its date and the generation it asks of each
component. The comparison in `preserve_sbat_uefi_variable` is kept as it is
in the code: a stored level is kept when its version is greater *or* its date
is not older.

### RevocationStore

What shim promises of any revocation level it keeps in a variable: while Secure
Boot protects a boot, the level is removed or replaced by one newer than both
what is stored and what the boot found (`floor`). `Forget` is the one licence a
store may ask for: a boot that failed to write goes on and no longer knows what
it took away. `SbatLevel` implements it without (`LevelStore`), `SkuSiPolicy`
only with it (`SspStore`).

### SkuSiPolicy

The sibling of SbatLevel with a pair of variables. Its steps are again the
firmware calls of `set_ssp_uefi_variable`: `ReadPolicy`, `clear_ssp_policy`,
`ReadVersion`, `DeleteVersion`, `DeleteSigners`, `SetVersion`, `SetSigners`. `caller` says which of
the two callers runs, `Args` what it passes; the pointers that may be NULL are
sets of at most one. A list of signers is named by the version it was
published with, which is what lets a property say that a pair belongs together.
`OsSetPolicy` and `BootManagerUpdates` are the environment.

### ShimHooks

The boot-services table is a function from services to "who is called":
the firmware or one of the shims. Each shim has its saved pointers. The
protocol database is a sequence, the first entry being the one `LibLocateProtocol`
finds. Control is a stack of frames: `efi_main` of a shim, the second stage it
started, an image started by that. Chain-loading a second shim is starting a
frame of `efi_main`. The operators `hook_system_services`,
`hook_exit`, `shim_init`, `shim_fini`, `install_shim_protocols` are functions
on this triple; the actions are the calls a program can make.
`uninstall_shim_protocols` takes out what `UninstallProtocolInterface` would: the
shim's own entry (`Without`), wherever it is in the list. `sbat_loaded` says which
shims have a list in memory, and the history `exited` whose `do_exit` has run.

`habits`, chosen once from `HabitSets`, says what programs do besides the usual: set
`ShimRetainProtocol`, start an image other than the last one loaded, call
`Exit` in a way the firmware refuses, call `Exit` from deep inside, or bring
network drivers.

### ImageVerify

One verification is a sequence of steps, as in `verify_buffer_authenticode`:
the hash against the denylists, the hash against the allowlists, each entry of
the certificate table in turn, the remote verifier, SBAT, measurement. Several
verifications make a boot. An image is its two hashes, whether its headers
and table are in order, its signatures (the set of certificates a signature
chains to) and whether its SBAT section passes. The policy it is compared to,
`Policy`, is written without any order. A measurement into PCR 7 can go three
ways (`tpm_measure_variable`): recorded after it was extended; refused, with
nothing changed; or extended and then not recorded, which may also take the whole
list with it (`lost`, tpm.c:335). `unrecorded` is the history of the last.

### MokMirror

`import_mok_state` for the seven variables of the table, in both passes. Key
databases are sequences of signature lists with their sizes in bytes, because
what is hard is how `mirror_mok_db` cuts them; `Ids` tells the lists apart, and
`Ends` says at which byte each of them ends. A list whose signatures have no size ends
the loop, as in the code. The other variables are sequences of bytes. `conf.foreign` are
copies somebody else left before shim came, with their sizes, since they count
where the firmware reports what is left. Each step may fail with a kind of fault from `Faults`, up to
the number the configuration allows, and `trouble` remembers which.
`Decide` is what `efi_main` does with the result.

### MokManager

Boots of a machine whose operating system writes requests and password hashes
between them. `Take` reads the requests and deletes them, but for those it cannot
read; `EnterMenu` asks for the password, unless `MokPWStore` cannot be read;
`Scan` is the top of the menu loop, where the hashes are looked at with a size that
one read hands to the next. `Overrun` is where that size lets a hash be written
past its buffer: what follows is as if it had fitted, or nothing until somebody
switches the machine off and on. Every choice in the menu is an action. The
bodies of `delete_hash_in_list`, `delete_cert`, `build_mok_list` and
`write_back_mok_list` are operators on sequences, with the indices of the code:
`Remaining` is what `delete_keys` writes back.

### Fallback

A machine over many boots. The store is `entries` (what each `Boot####` is
for), `hidden` (those masked the way some firmware does), `order` and
`no_reboot`. `should_use_fallback` is the firmware coming to
`\EFI\BOOT` because nothing in `BootOrder` starts. `OpenDirectory` and
`try_boot_csv` take the disk apart into rows, `add_to_boot_list` handles
one, `add_boot_option` is a step of its own for one that was not found.
`DeleteOrder` and `WriteOrder` are the two calls of `update_boot_order`, with a
power cut in between. `Decide`, `Countdown` and `try_start_first_option` are
the end of `efi_main`. A row stands for all `find_boot_option` compares: path,
label and arguments. `before`, `trouble`, `doubled` and `unread` are
histories.

### HttpFetch

The environment is the firmware's HTTP instance: which calls fail, how a
response is cut into chunks, and when the two callbacks run relative to
`Poll`. The state is what the client keeps in globals and in the frames the
callbacks point into (`tokens` and the frames they belong to), the child handle,
the interface and attempt of `send_http_get_request`, and the method and body
left for the next request. One module serves both users: `read_image`, which
fetches a file, and the verifier, which asks over every interface and accepts
only when all answers are in. `uninformed` is the history of the interfaces whose
`GetData` succeeded without any information, which the code passes over.

### PeLoader

One program from `start_image` to its return. A file is its sections (address,
sizes, position, flags), its size and its `.reloc`; offsets are numbers below
`Word`, so a sum may wrap as in the code. `Raw(s)` are the bytes a section
loads, `Hashed` those `generate_hash` puts into the digest, computed in its
order (headers, sections sorted by position, the tail); `SbatBytes` what is
checked as SBAT data. The pages of the image are a function to what they hold and
to their rights; `LoadSection` and `ProtectSection` are the loops of
`handle_image`, a section at a time, with each of their refusals, and
`update_mem_attrs` has the outcomes of its firmware calls.

Composition: `MokManager` has mok.c's decision to start it (`CheckMokRequest`)
and `MokMirror` ends where that decision is made; `SbatLevel` has the place of
`import_mok_state` as one step that leaves `user_insecure_mode` open, which
`MokMirror` fills in. The revocation list `SbatLevel` guards is the `sbat` flag of
an image in `ImageVerify` and `sbat_loaded` in `ShimHooks`. The verdict of `ImageVerify` is one
step of `PeLoader` (`generate_hash` to `verify_buffer`), the remote verifier's
answer in `ImageVerify` is the end of a verification in `HttpFetch`, and what an
entered program does is `ShimHooks`. `SbatLevel` and `SkuSiPolicy` run one after
the other in the same boot and share nothing but the file they read.

## 3. What the runs show

| Run | Question | Result |
|---|---|---|
| `sbat_level` | Is the level safe over boots with deletes and writes that fail, corrupt what they write, or are cut? Does it implement `RevocationStore`? | holds, 198,845 states |
| `sku_si_policy` | Does the pair stay a pair, the request get what it asked, and the version implement `RevocationStore`? | holds, 210,782 states |
| `hooks` | Is the table intact and everything gone after every return, do protocol and hooks belong together, and is the revocation list always there? | holds, 808,478 states |
| `hooks_drivers` | Does the first image shim starts find shim's hooks and protocol? | **no** |
| `image_verify` | Is the verdict the order-free policy, and what is accepted measured, once, over a boot? | holds, 452,792 states |
| `pe_loader` | Was everything loaded hashed first, and does what is entered look the way its section table says? | holds, 62,710 states |
| `http_fetch` | Are files whole, callbacks inside living frames, verifications confirmed by all, and fetches finite? | holds, 21,564 states |
| `mok_mirror` | Do both passes together lose nothing and leave no bad variable? | holds, 2,864,696 states |
| `mok_mirror_gap` | Is every entry mirrored that fits in a variable? | **no** |
| `mok_manager` | Are changes authorised, followed by a reset, and requests used up? | holds, 4,944,123 states |
| `mok_manager_repeats` | Does deleting a hash delete every copy of it and nothing else? | **no** |
| `fallback` | Do the rows come first, everything else keep its place, nothing appear twice, and the machine always boot? | holds, 281,134 states |

Several properties are conjunctions of parts that are about the same thing and
fail for different reasons; the parts are named in the module
(`AskedPairLeft` is `PairMoves` and `RequestHonoured`, `GuardedBoot` is
`ProtocolMatchesHooks` and `SbatMandatory`, `BadVariablesRefused` is `NoBadLeft` and
`SwitchesEarned`, `NothingLost` is `CopiesComplete` and `TableComplete`).

The three that say **no** are listed as findings, each with the line it
contradicts:

* `hooks_drivers`: the remote verifier loads and starts its network drivers
  with `LoadImage` and `StartImage` of the table, which shim has hooked. shim
  takes each driver for the second stage: it removes its hooks and protocol
  before starting it, and a driver that starts well leaves it so. The second
  stage then runs without either (http-request.c:167, replacements.c:56-127).
* `mok_mirror_gap`: the loop's minimum is a header plus a SHA-1 signature,
  also inside a list whose header has been passed, so one last SHA-256 hash
  is never mirrored (mok.c:379).
* `mok_manager_repeats`: `match_hash` starts its index at `start` and its
  pointer at the first hash (MokManager.c:1160); deleting a hash that is there
  twice removes an innocent one.

### Bounds, and why they are enough

* **SbatLevel**: two components; seven payloads (the three built-in ones, a
  newer one, one that revokes this shim, one that does not parse, one with a
  newer format but an old date), which gives every answer of each comparison
  the code makes; four revocation files. Nothing else is bounded: the state is
  finite and boots go on for ever. `sbat_level` allows every fault but a failing
  read (see section 5).
* **SkuSiPolicy**: three versions that differ in the first and in the last of
  their fields, and shim's own between them; `Word` is 3, which keeps the order of
  four 16-bit fields; six files (both pairs, an older pair alone, half a pair
  beside a whole one and on its own, one that does not verify); every fault but
  an unreadable version. Boots go on for ever.
* **ShimHooks**: two shims and five frames: firmware, shim, stage, shim,
  stage. What a third shim adds is that one in the middle fails or leaves while
  another still waits; the theorems of section 4 are about any number of shims and
  any depth. `HabitSets` has three sets, of which a behaviour chooses
  one: network drivers alone; `ShimRetainProtocol` with stale images; and drivers with an
  `Exit` that is refused. The theorems hold for all of these together. The habit "exit" is in
  none, because its outcome is known (section 6).
* **ImageVerify**: three certificates, an issuer and its leaf among them; all
  images with up to two table entries of five kinds and three odd ones; each
  denial with each allowance, verified up to three times in a boot. A second
  family has three different images in a boot, which is what it takes for two
  to share an authority and a third to come in between, and TPMs that work,
  fail or are missing.
* **MokMirror**: one or two lists, with limits at which nothing fits, one entry
  does, two entries do but only without the name, a list just does; limits
  that stay and limits that shrink as variables are written; with one fault
  anywhere. A second family has flags with good and bad attributes,
  variables that cannot be deleted, copies left by others, and two faults.
* **MokManager**: three variables written by the operating system (a request
  with its hash and one more) over any number of boots, hashes of both right lengths, of
  a wrong one that fits the buffer and of one that does not, one failing call or
  unreadable variable, and the disk's key enrolled once. A request has a node of two hashes, one of them
  stored, and a node with a stored certificate.
* **HttpFetch**: two interfaces, two attempts each to find a binding and an
  address, an `rx_buffer` of two bytes and contents of up to four, so that a
  file takes more than one chunk and a chunk can be too long; any sequence of
  files and verifications, any firmware call failing at any time.
* **PeLoader**: offsets of four bits, so that sums wrap, pages of two bytes, so
  that sections share them, and files of ten bytes with up to three sections: a
  text section, data and `.reloc` with each of the odd sections of
  `MCPeLoader` beside them (longer in memory or in the file, overlapping, with all
  rights or none, empty, without data, inside the headers, behind the end,
  wrapping); with each kind of certificate table; loaded with and without Secure
  Boot, with and without required NX, with memory protection working, failing
  or absent.
* **Fallback**: four numbers, five rows (two to handle, one short of commas,
  one malformed, one of another system), disks with two CSV files in a
  directory, with a directory without any, and with a row in two files; stores
  with nothing, with other entries, and with an order that names an entry
  that does not exist. Two failing calls and two events (a power cut, an order or an
  entry lost, an entry masked): an event to come to fallback, one to cut it
  short, and two faults in the boots that follow. With three events the
  properties hold too, in 1.14 million states.

`CHECK_DEADLOCK FALSE` stands where a boot ends and the model does not start
another one (`ShimHooks`, `ImageVerify`). In the other modules the end of the boot is
a step of its own, so TLC's deadlock check stays on.

### Fairness

`SbatLevel`, `HttpFetch` and `Fallback` state any. shim is one thread and every
firmware call returns, so each of its sequential steps is weakly fair; the machine
is switched on again and rebooted at some time. Nothing makes the operating system
write a policy, and power cuts are never forced. With this `BootEnds` of
`SbatLevel` holds under every fault.

In `HttpFetch` the polling loops have no limit of their own (httpboot.c:515,
566, 618): they end because the firmware completes every token. That is weak fairness
of the firmware, and what justifies it is that `configure_http` leaves the
instance's default time-out in force. It does not say that a completed chunk
has anything in it; strong fairness of the non-empty chunks says that a
connection does not deliver empty ones for ever. `FetchEnds` leaves out a fetch
by the method the verifier left behind, and an interface that gives no information
after DHCP (section 6).

In
`Fallback` one weak fairness on all steps of the program, the firmware's boot
manager and the user, whoever has control, is enough: any choice at the
countdown leads to a boot in the end. Nothing forces the firmware to lose entries, nor
the power to fail; `BootsUnlessFull` is about what follows once the bounded
faults are used up.

## 4. What is proved

For every value of the constants that satisfies the modules' assumptions:

| Theorem | Says | If |
|---|---|---|
| `SbatLevelProofs!TypeCorrect` | `TypeOK` | |
| `SbatLevelProofs!LevelNeverRolledBack` | `NoRollback` | reads work |
| `SbatLevelProofs!EnforcedIsCurrent` | `EnforcedNotOlder` | reads work |
| `SbatLevelProofs!RequestReached` | `AtLeastRequested` | reads work |
| `SbatLevelProofs!ImplementsStore` | `LevelStore`: the machine implements `RevocationStore` | reads work |
| `SbatLevelProofs!NothingRevokedRuns` | `RunningNotRevoked` | reads work, payloads are cumulative |
| `SbatLevelProofs!ShimNeverRevokesItself` | `NeverSelfRevokes` | reads work |
| `SkuSiPolicyProofs!TypeCorrect` | `TypeOK` | |
| `SkuSiPolicyProofs!ImplementsStore` | `SspStore`: the machine implements `RevocationStore` | reads work |
| `SkuSiPolicyProofs!PairLeftAsAsked` | `AskedPairLeft` | files are paired |
| `ShimHooksProofs!TypeCorrect` | `TypeOK` | |
| `ShimHooksProofs!ExitMeansParticipation` | `ExitNeedsParticipation` | |
| `ShimHooksProofs!SbatIsMandatory` | `SbatMandatory`, half of `GuardedBoot` | every shim has vendor certificates, and `Exit` is not called over a nested one |
| `ShimHooksProofs!BootIsGuarded` | `GuardedBoot` | the same |
| `ShimHooksProofs!PointersLeadToFirmware` | `ChainsEndInFirmware` | the same |
| `ImageVerifyProofs!VerdictCorrect` | `VerdictIsPolicy` | |
| `ImageVerifyProofs!VerifyTypeCorrect` | `TypeOK` | |
| `ImageVerifyProofs!NothingMeasuredTwice` | `MeasuredOnce` | |
| `ImageVerifyProofs!AcceptedIsInPcrs` | `AcceptedIsMeasured` | |
| `PeLoaderProofs!WhatRunsWasHashed` | `LoadedIsHashed` | |
| `PeLoaderProofs!TypeCorrect` | `TypeOK` | |
| `PeLoaderProofs!EnteredAsDeclared` | `RunsAsDeclared` | |
| `BootSourceProofs!FetchTypeCorrect` | `FetchTypeOK` of HttpFetch | |
| `BootSourceProofs!NoTokenOutlivesItsFrame` | `TokenInFrame` | |
| `BootSourceProofs!DownloadsAreWhole` | `WholeFile` | |
| `BootSourceProofs!EveryInterfaceAgrees` | `VerifiedByAll` | |
| `BootSourceProofs!FallbackTypeCorrect` | `TypeOK` of Fallback | |
| `BootSourceProofs!RowsComeFirst` | `RowsFirst` | |
| `BootSourceProofs!OthersKeepOrder` | `OthersKeepTheirOrder` | |
| `BootSourceProofs!NoSecondEntry` | `NoDuplicateEntries` | no row has two entries at first |
| `MokMirrorProofs!TypeCorrect` | `TypeOK` | |
| `MokMirrorProofs!NoBadVariableLeft` | `NoBadLeft` | |
| `MokMirrorProofs!BadOnesAreRefused` | `BadVariablesRefused` | |
| `MokMirrorProofs!CopiesAreShimsOwn` | `CopiesAreShims` | |
| `MokMirrorProofs!TableIsComplete` | `TableComplete`, half of `NothingLost` | |
| `MokMirrorProofs!CopiesAreComplete` | `CopiesComplete`, the other half | |
| `MokMirrorProofs!NothingIsLost` | `NothingLost` | |
| `MokManagerProofs!TypeCorrect` | `TypeOK` | |
| `MokManagerProofs!NoChangeWithoutProof` | `ChangesAuthorised` | |
| `MokManagerProofs!ChangesMeanReset` | `RebootAfterChange` | |
| `MokManagerProofs!RequestsAreForOneBoot` | `NothingLeftBehind` | |
| `MokManagerProofs!DeletionIsExact` | `DeletesWhatIsNamed` | |

The proofs of HttpFetch and of Fallback are in one module, which extends both. That is
why HttpFetch's specification is `FetchSpec`, its type invariant `FetchTypeOK` and its
control state `at`, where the other modules have `Spec`, `TypeOK` and `pc`; nothing
relates the two, and no theorem about one has a hypothesis about the other.

### From what

The assumptions of the modules, which TLC evaluates in each run:

* SbatLevel, `BuiltinAssumption`: the built-in payloads parse, do not revoke the
  shim that carries them, and latest is not older than automatic; all three
  follow from `include/sbat_var_defs.h` and the build.
* ImageVerify and MokMirror, `ConfigsAssumption`, MokManager,
  `ContentsAssumption` and `StoredAssumption`: each configuration has the
  shape the code can parse (lists are indexed from one, sizes are numbers, a
  request is absent or has contents, and a password hash is of any of the kinds of
  length there are, longer than the buffer included). For MokMirror that is all: databases of any
  length, lists of any number of signatures of any size, zero included, and any limit. MokManager, `BoundsAssumption`, and HttpFetch and
  PeLoader, `ConstantsAssumption`: bounds and sizes are natural numbers, files
  are of the right type. MokMirror, `FaultsAssumption`: the faults are of the
  kinds the model has.
* MokManager, `NodesAssumption`: requests and lists are sequences of signature lists
  that have an entry each, and a request is not empty. `count_keys` lets one more kind
  of list pass, cut short within its first hash (MokManager.c:154-158); it is left
  out. Nothing is said of the number of lists, their length or repetitions.
* ShimHooks, `ShimsAssumption`: shims have names of their own.
* Fallback, `FallbackAssumption`: disks are directories of files of rows, stores are
  entries and orders over the numbers there are, `Free` is not a row, and a file has
  at most one row with a comma missing (see section 7). The number of
  directories, files and rows, the length of the order, what it repeats and the
  numbers it names without an entry are free.

Some theorems have a hypothesis besides. None can be dropped; section 5 says what
happens without.

* `ReadsWork`: "read" is not among the faults.
* `Cumulative` is SBAT.md's rule for whoever publishes payloads.
* `FilesPaired`: a published file that has both halves has the signers of its
  own version.
* `FoundOnce`: no two entries of a store are for the same row of a disk. TLC
  evaluates it for the stores and disks of the run (`MCFoundOnce`).
* `VendorCerts = Shims`: no shim of the boot was built without a certificate.
* `"exit" \notin h` for each set of habits `h`: `Exit` is called by the second
  stage of the first shim only, not by programs of a shim started later.

### Along which arguments

**SbatLevel.** `NoRollback` is not inductive: whether a write is
safe depends on what was compared five calls earlier, and on which of the two
updates is running. `SafetyInv` therefore has a part for each: what a
candidate can be (`CandidateInv`), what the first update still knows of the level
at power-on (`FirstUpdateInv`), that the second update starts from a good level
that is the enforced one (`SecondUpdateInv`), what delete and write have done
(`WrittenInv`), and how the list in memory relates to the store
(`EnforcedInv`, `AutomaticInv`, `SelfCheckInv`, `AcceptedInv`). The step
`SafetyStep` has one case per action. The facts about dates and versions
(`Newer`, the transitivity it does and does not have) are lemmas.
`LatestInv` adds to it how far the request has got, and gives
`RequestReached`.

**The refinements.** Both machines are mapped onto `RevocationStore` by what is
usable in the variable, what was when the boot began, and whether Secure Boot
protects the boot. A firmware call that deletes is `Remove`, one that writes is
`Install`, and everything else stutters, except the ends of a boot. The step
that needs the invariant is `Install`: the guard compares the new level with
`floor` as well as with what is stored, and by then the code has deleted what it
compared with. For `SkuSiPolicy` the invariant `SspInv` carries it over the five
steps and into the second call: `KeptInv` says that at each comparison the
variable holds at least what the boot found, unless a write failed (`lost`,
which is `Forget`), `NewerInv` that what is about to be written is newer than both,
and `BuiltinInv` that the first call has a whole pair or none, without which it
could delete and then write nothing and go on.

**SkuSiPolicy's pair.** `AskedPairLeft` speaks of the state after a call and of
what the boot found before the first. `SelectInv` says that what a call writes is what
the policy selects from the caller's arguments; `AskedInv` says at each `pc` whether the store
has the pair the boot found, a newer one as a whole, or is between the two
with the deletes and writes that are still due (`Raising`), and that a call that
ends has done what was asked (`Done`).

**ImageVerify.** `VerdictInv` says at each `pc` what has been
decided: between the probes, that no denylist names the hash; in the loop,
that `ret` is success exactly when an entry before `i` is good
(`GoodBefore(i)`), which is what makes the order of entries irrelevant.
`MeasureInv` keeps PCR 7 a sequence over what is in `measureddata` or was not recorded,
without repetition of the former.
For `AcceptedIsMeasured`, `LogInv` says from which step on the image is in
PCR 4 (the protocol's `Verify` measures before it verifies, the others last),
`GrantInv` that from the check that succeeds on, an authority that allows this
image is in `measureddata`. `MeasuredOnce` has that whatever is there is in PCR 7,
which is why an authority that is not measured again has been before. What
is measured is the first entry of the list that matches; that there is a first
takes the least one (`FirstHitHits`).

**PeLoader.** `HashInv`: from the measurement's hash on, `hashed` is
`Hashed(file)`, and nothing is in memory before; so the step that matters is
`CopySection`, which copies the smaller of a section's two sizes while the
hash goes by one of them (`CopiedInHash`). `TypeOK` has two arguments behind it: that
the sum of all sizes is a number that the checks compare rightly with the
length (`SumIsNat`, `HashedInFile`), and that the bytes in memory are below the
length because they were hashed.
`RunsAsDeclared` compares the memory an image is entered with to a table read
from its end, while the loops go over it from the beginning. `LayoutInv`
states it of the sections before `i`: each offset holds what the last copied
section over it says (`LaidOut`), each page has the rights of the last that
claims it (`Protected`), and those that were passed have been checked (`Passed`,
`EntryIn`). One lemma each carries it over a round (`LaidNext`, `ProtectedNext`,
`PassedNext`, `EntryNext`); the last of them is where 32-bit sums wrap: a
section whose last byte lies behind the entry point, computed modulo `Word`,
does contain the entry point (`EntryInBytes`), given the two NULL checks.

**HttpFetch.** `FrameInv` says who owns what at each value of `at`: the token in flight,
its event, the child handle, and which flag the firmware has set; each error label has
to give up exactly what the steps before it acquired. `FileInv` says that there is
no buffer before the first response, that no more is copied than it holds, and
that from then on an end of `http_fetch` with success means 200 and a full buffer.
`VoteInv` says that every interface before the one being asked has answered 200 or
is one of those passed over, and that those passed over are no later ones.

**Fallback.** None of the three properties is inductive, since they speak of the end of
a run. `RowsInv` says that every wanted row is either `Pending` (in what is
left of a file, in the file to be read next, or in the first file of a directory
to come) or `Placed` (an entry of the list in memory is for it, and all
before it are for wanted rows). `add_to_boot_list` shifts the numbers before the
one it moves by one place and leaves the others (`Shifted`, `MovedFrom`), which
keeps what is `Placed`; a new entry takes a number that is free, which is none
of a placed row's. `OrderInv` compares the list with `before`: without the
numbers of entries for rows of the disk (`NotHandled`) it is the order that was
read. Both sides change when an entry is made, as one more number is left out of
them, and stay equal since leaving out twice is leaving out both at once
(`WithoutMore`). A number that is repeated was repeated (`ShiftedRepeats`), or
stood there without an entry; the latter needs to know that what is in the list and was not in
the order has an entry, and that within a run no entry is lost (`ListOK`). `NoDuplicateInv` is
`NoDuplicateEntries` with `LookedUp`: when an entry is about to be made for a row,
there is none, or the lookup failed and the row is in `doubled`.

`Without` is a recursive function, and all that is known of it comes from four
lemmas, each derived along the prefixes of the sequence (`UpTo`):
its range (`WithoutRange`), the next element (`WithoutAppend`), a
concatenation (`WithoutConcat`), and two sets (`WithoutMore`).

**MokMirror.** The code makes two passes over seven variables, so most invariants
say what holds of the variables that have been passed in this pass, what of
those still to come (`Ahead`), and what of the one being worked on. `BadInv`:
a variable with wrong attributes is still to come, or its deletion failed
and `ret` says so. `ValueInv` and `MeasuredInv` follow a switch from the
store through `data` to the globals and the TPM. `ForeignInv` says where a copy
somebody else left may still be, `CopyInv` that each key database has its first copy,
will get it (`Underway`), or has met an error that reaches `ret`. `TableInv` says the
same of the full contents, first in `data` and then in the table, however the
copies were cut.

`TypeOK` and `CopiesComplete` are about how a database is cut. `PlaceInv` is the position in
it: before a list or inside one, never behind the last. That the loop's guard keeps it there is
arithmetic on `Ends`, which grows with each list (`EndsGrow`), so that a position
past the last list leaves no bytes (`MoreIsThere`), and a loop that ends has seen every
list, if all signatures are large enough (`LoopReachesEnd`). `HoldInv` and `LoadedInv`
say what is in hand: the database as it is wanted in the first pass, and in the
second what was prepended once more before it, because the data of the first pass
have it already. `NumberInv` says that the second pass writes under names
nothing has yet.
What the first pass leaves to the second is `Begun`: all signatures, or, if the
database is too large, the first portion, of a size both passes have to agree on
(`FirstPortions`: the second measures against a longer name, so it skips no more than
was written). `CoverInv` adds that what lies before the position in the second pass
is in some copy. The passes agree because the limit does not rise between them
(`LimitFalls`). Where the firmware reports what is left, that needs `FirstsInv`
(each first copy is written once, by the pass that comes to it, and replaces nothing) and
that one more variable takes more space (`UsedGrows`). The space taken is
a fold over the set of variables in an order nobody knows; `SumOfRest` shows
that the order makes no difference.

**MokManager.** The types are the invariant `Shapes`, in five parts;
`MenuStep` among them shows that the menu never works on a request that
has been freed. `AuthorisedInv`: before the menu nothing has changed,
and past the password prompt the password was the right one, or none was set, or
it could not be read; what has failed in a boot is known until the next
(`TroubleGrows`).
`ResetInv` and `FreedInv` relate `mok_changed` to whether the store still is
what it was, and to which buffers are gone; together they say that
`check_mok_request` neither forgets the reset nor frees twice. `CleanInv`, that
from the menu on every request is gone unless its reading or deletion failed in this
boot, gives the action property `NothingLeftBehind`.

`DeletionIsExact` is about what the nested loops of `delete_keys` compute, for lists and
requests of any size. From the inside out: `match_hash` finds a hash that is
there, at its first index, and none that is not (`HashLoop` then stops after one
round in a node without repetitions); striking a hash or a certificate out of one node
takes it out and nothing else; so does a whole node of the request, and a whole
request (`RemainingFacts`), each by a fold whose steps are shown to keep
what is left equal to what was there without what has been named so far; and
`write_back_mok_list` loses nothing but empty nodes. `KeysInv` says that all the
lists and pointers hold signature lists with entries.

**ShimHooks.** Everything rests on `FrameInv`: how frames of shims and stages can
be stacked, and which of them is between `shim_init` and `shim_fini`
(`PastInit`). `HookInv` then relates the three things that must agree to
the stack: whose hooks and protocol are there (`TableInv`: nobody's, or those of the shim
nearest below, when nothing above it was started through a hook), what each has
saved (`SavedInv`: the firmware's services, never another shim's), and through whose
`StartImage` an image was started (`ViaInv`: that of a shim below it, which puts its
hooks back if the image fails). `CalledInv` is
about `loader_is_participating`; `OutermostInv` says that with the usual habits
(`Usual`, a part of `ProtocolMatchesHooks`) nothing calls `Exit` over a nested shim.

`ChainsEndInFirmware` needs to know where every pointer leads, which for `Exit` is not
the nearest shim: the outer shim's `replacement_start_image` takes its other hooks
out before a nested shim runs, but its `Exit` hook stays. So `Own` has
`ExitInv`: the saved `Exit` pointers are a path (`ExitPath`) down the frames that are
between `shim_init` and `shim_fini`, every one of them once, from the table to
the firmware. The path grows and shrinks at its top as shims start, fail and
leave in turn, which is what the frames' nesting gives and what
`Exit` called from deep inside breaks. `ProtInv` says that the protocols are of
those same shims, each there once.

`SbatMandatory` is about three pieces of state that change at different places: whose
protocol is listed, who is starting images, and who has a list in memory. `ListInv`
says that every shim past its start has its list or has been through `do_exit`,
however deep it is (two shims in the stack are two, `Distinct`, so that one that
leaves frees its own list only). `ProtInv` is the other half: a listed protocol is
that of a shim past its start, which includes one that is put back when an image or
a driver failed to start, or an `Exit` was refused.

While an `Exit()` is under way only the first shim
is left and everything of it is taken out, and a refusal puts it back (`OwnInv`).

**Numbers.** The provers have no rule of induction over data. Where a fact about every
index is needed (the sum of the sections' sizes, the last section over an
offset, the first entry that grants, the end of each signature list), it is derived from the least number
at which it would fail (`LeastElement`), which the library's theorem on
well-founded relations gives; a recursive function is shown to exist the same way.
Over finite sets the same is done with their cardinalities
(`SubsetInduction` in `MokMirrorProofs`).

### Only model-checked

* The liveness properties `BootEnds`, `FetchEnds` and `BootsUnlessFull`: the prover
  has no ENABLED.

Everything else that the passing runs check is a theorem.

## 5. What the properties leave out, on purpose

* `SbatLevel`: `ReadsWork`. The code treats a level it cannot read as one
  that is not there (sbat.c:536) and writes the automatic one, which may be
  older. With "read" among the faults `NoRollback` is false.
* `SkuSiPolicy`: `ReadsWork` again (sbat.c:743 treats an unreadable version as
  none). A reset, or a NULL half of a pair in a file, is left out of
  `AskedPairLeft` by `Paired`: with the version missing `SetVariable` refuses it
  after the stored pair has been deleted. After a failed write the file's
  version is written without being compared with the one that was deleted;
  `RevocationStore` calls it `Forget`. `FilesPaired`: shim takes the two
  halves of a file as they come, so a file with the signers of another version
  would be written as it is.
* `ShimHooks`: `GuardedBoot` and `ChainsEndInFirmware` need certificates in
  every shim (section 6, on a shim that hooks nothing and restores pointers it never
  saved). With the habit "exit" `ChainsEndInFirmware` is false: the shims an `Exit` passes
  on its way take their hooks out and go on (section 6).
  `ProtocolMatchesHooks` is about the usual programs (`Usual`). `SbatMandatory` is about
  all of them, and exempts by name (`exited`) a shim whose `do_exit` has run: it has freed
  its list and, refused by the firmware, put its protocol back without loading the
  list again (section 6).
* `ImageVerify`: `MeasuredOnce` exempts an authority whose own record failed or was
  lost (`unrecorded`): tpm.c:389 extends the PCR before tpm.c:398 records it, and the
  next image with the same authority extends it again.
* `HttpFetch`: `VerifiedByAll` exempts the interfaces in `uninformed`, which nobody
  asks: if there is no other, an image is accepted that no server confirmed
  (section 6). A success without a buffer is allowed by `WholeFile`, because
  the code returns it (section 6).
* `PeLoader`: the checks on where headers and tables lie are one flag
  (`wellformed`), and sections aligned to more than a page are not modelled.
  What `RunsAsDeclared` takes as declared is what the code does with a table that is
  unusual: where sections overlap the last one counts; one that does not
  begin with a page keeps the rights of the allocation (`update_mem_attrs` returns
  success without a change, pe.c:487); an image without a readable `.reloc` section,
  or whose table lies behind the image, is started unrelocated (pe.c:864,
  pe-relocate.c:71); an entry point inside a discardable section is counted
  though the section is not loaded (pe.c:785), and a discardable section may be writable
  and executable where NX is required (pe.c:764). The contents of the
  relocation table are a set of offsets. The pages of a program that was entered are
  not given back when it returns.
* `MokManager`: `RebootAfterChange` leaves out a list that was erased because
  it could not be trusted (no reset follows, MokManager.c:1298-1342), and no
  memory for the menu (MokManager.c:2299-2308, which returns past the reset).
  `ChangesAuthorised` leaves out the password of `MokPWStore` in a boot in which it could
  not be read: `verify_pw` then lets the user in on purpose (MokManager.c:2119-2126). The
  proof each kind of change asks for is required all the same. `NothingLeftBehind` leaves
  out a boot in which a request could not be read, which is reported and stays
  (MokManager.c:2538), or not deleted.
* `MokMirror`: `NothingLost` asks for signatures of at least 65 bytes, which is
  `mok_mirror_gap` stated the other way round, that the limit reported by
  the firmware was enough for each list's smallest part ("skipped"), and `Steady`:
  where the firmware reports what is left (`"dynamic"`), that no copies of somebody else
  stood in the store. Each pass asks for the limit anew (mok.c:319). If the
  first pass splits `MokList` and then deletes such a copy of a later variable (mok.c:838),
  the limit rises; the second pass finds that the database fits, and leaves it to the
  first (mok.c:330-338): all but the first portion is then in no copy. Without
  `Steady`, TLC finds this. The configuration table has everything in any case.
  `CopiesAreShims` leaves out a copy of another that could not be deleted, and one of an
  inverted variable for which there was no memory: mok.c:880-883 returns before
  the deletion.
* `DeletesWhatIsNamed` is about nodes of the list without repetitions, and nodes of the
  list and the request with one certificate each; `build_mok_list` keeps only one
  certificate of a node, so others in the request are not deleted and others in
  the list are lost.
* `Fallback`: `NoDuplicateEntries` is about entries fallback makes, which is why
  its theorem asks for `FoundOnce`: a row that has two entries when the machine is
  first switched on keeps both, as `add_to_boot_list` moves one of them and
  nothing deletes the other. `RowsFirst` is about boots in which no call failed and a number was
  free; `OthersKeepTheirOrder` (its part `NumbersOnce`) leaves out numbers that stood in `BootOrder` without an
  entry (a new entry takes the number, which is then there twice) and ones
  whose entry could not be read, which fallback overwrites (fallback.c:227);
  `BootsUnlessFull` leaves out stores in which no number is free and no row has
  its entry: with a TPM fallback and the firmware then reset in turns. A
  `BootOrder` that cannot be read is replaced by one with fallback's rows only,
  and `OthersKeepTheirOrder` compares with what was read. The firmware is
  assumed to start masked entries that are in `BootOrder`, and to honour
  `BootOrder` at all; with one that does not, `TODO`'s loop is real.

## 6. Other differences between code and comments

Met while modelling; no run is spent on them.

* PCR 4 is extended after verification (pe.c:670); README.tpm:4-5 says before.
* The remote verifier is asked last, after the hash and each signature
  (shim.c:717); the comment above it (shim.c:703-708) says first.
* README.tpm:15-17 names the PCR 7 entries "MokList"; the code logs
  "MokListRT" (shim.c:384-413).
* `MokListTrustedRT` is written with the inverse of the state it comes from;
  a bad `MokListTrusted` leaves `trust_mok_list` at 1 and no RT variable.
* On a network boot `revocations.efi` goes through `load_cert_file`
  (shim.c:1677), which only takes certificates from it; the comment above
  (shim.c:1671-1676) wants its SBAT level updates.
* With `ShimRetainProtocol` a nested shim leaves the outer one's protocol
  first in the list (shim.c:1450), which the drawing above it warns of.
* `Exit` called below the second stage of a nested shim runs `shim_fini` of
  every shim on the way (replacements.c:146), though those shims go on. If
  the firmware refuses the call, `shim_init` restores the hooks, but
  `sbat_var` has been freed and stays empty (replacements.c:156).
* When a shim without vendor certificates starts one that has them, the inner
  one's hooks are in the table while the first protocol is the outer one's:
  `uninstall_shim_protocols` (shim.c:1450) removes only its own. The comment above it
  (shim.c:1434-1449) wants the second to replace the first.
* Without vendor certificates nothing is hooked, and `shim_fini` restores
  pointers that were never saved (shim.c:1831).
* A whole database is written without counting its name (mok.c:330), while the
  comment at mok.c:425 says that the name counts.
* A failing copy of `MokSBStateRT` or `SbatLevelRT` is hidden by the result of
  its measurement (mok.c:778-785), though efi_main is meant to stop on copy
  failures.
* A candidate that would revoke shim stays in `sbat_var` when "Not applied" is
  printed (sbat.c:555, 566); the rest of the boot is verified against it.
* The verifier sets `http_request_method` to POST and frees the body
  (keyless-sign.c:664) without setting it back: the next file of a network boot
  is then requested by POST, with the length of a NULL string
  (httpboot.c:470-487), while README.md:50 says that the method switches between
  GET and POST. The model has this
  (`StaleMethod`), `FetchEnds` exempts it.
* `receive_http_response` jumps to its error label with the status of a call
  that succeeded when there is no length or no memory (httpboot.c:600-612), so
  the caller gets success and no buffer.
* `find_httpboot` leaves `is_ip6` in a global, and a verifier that has
  configured an IPv4 interface reuses what an earlier file left there.
* For an `Ip4Config2` that returns success and no interface information,
  send_http_get_request goes on to the next interface with the status of that success
  (http-request.c:299): the server is not asked over it, and if it is the only interface
  the verifier accepts. After DHCP the same answer is read through NULL
  (http-request.c:143, `hung` in the model, unless the read finds something).
* A list of measured authorities that cannot be enlarged is lost, while its count stays
  (tpm.c:335-346): the next comparison reads through NULL, or past the one
  entry allocated since. The model lets what is found there match or not.
* The size `enter_mok_menu` reads one password hash with is what the previous read left
  (MokManager.c:2247-2273): too small for the next, if the previous was shorter, so that
  one of the right length counts as missing; too large if the
  previous did not fit, so that one of that length is written past the buffer.
* `osign_verify` (keyless-sign.c) is not called by anything.
* `check_section_helper` prints "found and rejected" for a section that is too
  short but has set the caller's pointer before (shim.c:1505-1512).
* In a `revocations.efi` with the signers of a pair but no version, an update
  deletes the stored pair and writes nothing; a reset of a machine that
  has signers but no version removes nothing.
* Power cuts can leave a new `SkuSiPolicyVersion` with the signers missing, and
  the version alone makes every later boot leave the pair as it is
  (sbat.c:745).
* A second `MokAuth` left by a reset makes the next boot offer "Reset MOK".
* A password hash of the wrong length makes `store_keys` return success
  without storing anything; MokManager then resets as after a change.
* Fallback starts the first row it handled (fallback.c:486), but `BootOrder` begins
  with the last, so after a reset another entry may boot than without a TPM.
* The comment in `populate_stanza` calls the arguments optional
  (fallback.c:695). They may be empty, but their comma may not be missing:
  the row would then take the next line's file name as its arguments, and what
  follows that line is not read. README.fallback's format always has the commas.

## 7. What is not modelled

Most of this tree is Cryptlib: OpenSSL and its headers, vendored, and by far more
lines than shim. None of it is modelled; a digest, a signature or a
password check is a member of a small set with the outcome the caller sees.
So the share of the whole tree that definitions map to is small. Of the sources
that make up the boot path they map to most: `pe.c`, `sbat.c`, `shim.c`,
`mok.c`, `fallback.c`, `replacements.c` and `pe-relocate.c` to two thirds or
more; of `MokManager.c` the half that changes state; of
the network sources what is a protocol and not text.

* **Security policy override**: compiled in only with OVERRIDE_SECURITY_POLICY,
  which `Make.defaults` leaves out.
* **Load options**: one pass over a buffer that sets two globals once.
* **Text**: building and parsing URIs and addresses, JSON, PKCS#7, CSV below
  the level of rows, the SBAT text below the level of entries.
* **Configuration tables, console, strings, files**: no protocol of their own.
* **MokManager's screens** and its file browser: they change no state.
* **The TPM's two protocols**: which of them extends a PCR makes no difference
  to what is measured and when.
* **Build tools, tests, fuzzers**: read for what they say, not part of shim.

Two bounds worth knowing: nobody but shim writes `SbatLevel`, and MokManager's
user enrolls one file.

## 8. Plan

1. (done) SbatLevel with proofs; ShimHooks; ImageVerify with proofs; MokMirror;
   MokManager; Fallback.
2. (done) RevocationStore, implemented by SbatLevel and SkuSiPolicy, both
   refinements proved; HttpFetch; PeLoader, with `LoadedIsHashed` proved.
3. (done) Proofs of the safety properties of PeLoader, HttpFetch, MokManager,
   MokMirror, ShimHooks, ImageVerify, SkuSiPolicy and Fallback, as listed in
   section 4.
4. Pure operators, each against a reference definition: load options, CSV rows.
5. A composition of MokMirror and MokManager over one boot.
