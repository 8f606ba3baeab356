# Verification project: Tauri ACL engine and CLI helpers

TLA+ models of the source under `src/`, TLC configurations that check them
on small instances, and TLAPS proofs of their main invariants for every value
of the constants.

## 1. Inventory

The repository holds seven source files. Five parts of them make decisions a
model can check; the rest is glue.

### 1.1 ACL engine (`src/core/tauri-utils/src/acl/`)

| Component | Source | State and operations |
|---|---|---|
| Data model | `mod.rs` 114-195, `manifest.rs` 12-55 | `Commands {allow, deny}`, `Scopes {allow?, deny?}` with `is_empty`, `Permission`, `PermissionSet`, `DefaultPermission`, `PermissionFile`, `Manifest` (default set, two `BTreeMap`s keyed by identifier, global scope schema). Plain values, no mutation after construction. |
| Manifest aggregation | `manifest.rs` 57-109 | `Manifest::new(files, schema)`: a loop over the files that replaces the default when a file has one (with the literal fallback description), then `collect`s the file's permissions and sets into `BTreeMap`s and `extend`s the manifest with them. |
| RemoteUrlPattern | `mod.rs` 197-253 | `from_str` widens an empty or absent search and hash, and an empty, absent or `/` pathname, to `*`; `test` maps a matcher error to `false`; `eq` compares the eight compiled components, never the text. |
| ExecutionContext | `mod.rs` 255-266 | `Local` (the default) or `Remote {url}`. |
| Embedding | `mod.rs` 308-389, `manifest.rs` 111-169 | `ToTokens` impls writing the values as Rust literals; `Remote` embeds the original pattern text and re-parses it at runtime. |
| Errors | `mod.rs` 29-112 | Error variants only. |

How they interact: build tooling (outside `src/`) parses the permission files
of a plugin and calls `Manifest::new`; the manifest is embedded with
`ToTokens`; at IPC time the runtime (outside `src/`) classifies the calling
webview's origin as an `ExecutionContext` using `RemoteUrlPattern::test`, and
resolves `Commands` allow/deny lists with deny-wins precedence.

Nothing in the ACL engine is concurrent: `Manifest::new` is a synchronous fold
and the manifest is immutable once built. What is hard is *order*: duplicate
identifiers within a file and across files, a default that appears in some
files only, and pattern text whose normalisation makes differently written
patterns equal.

Properties that make it correct: the manifest tables are last-write-wins over
the files in order (within a file too) and never merge two declarations; the
default is the last declared one; the reserved identifier `default` names
only the synthesised set (spec.md §6); a matcher error is a non-match; the
origin check judges a request by the patterns as authored, in order.

### 1.2 CLI helpers (`src/tooling/cli/src/`)

| Component | Source | State and operations |
|---|---|---|
| iOS device selection | `mobile/ios/mod.rs` 161-260 | `connected_device_prompt`, `simulator_prompt`, `device_prompt`: fuzzy-score each device, take the best with `rev().max_by_key`, accept only a score above `MIN_DEVICE_MATCH_SCORE`, otherwise prompt or fail; `device_prompt` falls back to simulators on any error. |
| iOS configuration | `mobile/ios/mod.rs` 105-159 | development team from the env var, else the config, else the only discovered team. |
| Info.plist merge | `mobile/ios/mod.rs` 278-303 | reads each source plist, loads the destination lazily, overlays dictionary keys, writes once. |
| migrate | `migrate/mod.rs` | config, manifest and frontend migrations, then one `add` per plugin, each `?`-propagated. |
| plugin new | `plugin/new.rs` | defaults the directory, creates it, converts the options (unwrapping the directory). |

### 1.3 Others

`core/tauri-macros/src/mobile.rs` generates the mobile entry point after two
environment lookups that share one error slot. `multiwebview/src/main.rs` is an
example application building a window with two webviews.

## 2. Plan

Modules, in order (most important behaviour first), and their status:

1. **ManifestAggregation** (done): `Manifest::new` as a state machine, one
   step per loop iteration. Proofs in **ManifestAggregationProofs**.
2. **RemoteUrlPattern** (done): normalisation, fail-closed `test`, the
   `ToTokens` text and its start-up `.parse().unwrap()`, and a
   spec-modelled `ExecutionContext` classifier. Proofs in
   **RemoteUrlPatternProofs**.
3. **PermissionCodec** (done): `Commands` and `Scopes` through serde and
   `ToTokens`, with the spec-modelled deny-wins decision.
4. **IosDeviceSelection** (done): device selection against a reference
   definition. `get_config` is not modelled (section 10).
5. **PlistMerge** (done), with **PlistMergeBase** and the atomic
   specification **PlistMergeAtomic** it refines.
   Proofs in **PlistMergeProofs**.
6. **MigrateCommand**, **PluginNew**, **MobileEntryPoint** (done): the CLI
   and macro sequences of fallible steps. PluginNew's state and property
   are in **PluginNewBase**. Proofs in **MigrateCommandProofs** and
   **MacroAndPluginNewProofs**.
7. Still open: a ManifestAtomic refinement for ManifestAggregation (the
   manifest appearing in one step) and the spec's split-invariance claim.

## 3. ManifestAggregation

State: `files` (the argument, fixed), `next` (the loop index), `manifest`
(the four fields of `Manifest`). `Init` is the `let mut manifest = Self {..}`
of `Manifest::new`; `AggregateFile` is one whole iteration of its loop:
`ReplaceDefault` (lines 71-79), `PermissionTable` then `Extend` (81-87),
`SetTable` then `Extend` (89-104). `PermissionTable` keeps the last entry of a
repeated identifier, which is what `BTreeMap`'s `FromIterator` does. Fields
of `Permission` that aggregation copies whole are one opaque `body`.

After the last file the function returns and the manifest never changes, so
the runs set `CHECK_DEADLOCK FALSE`: stopping is the program's behaviour. No
liveness is stated: the loop is a bounded `for`.

### Runs

* `manifest_aggregation` (MC_ManifestAggregation.cfg, pass): all 276,151
  inputs of at most two files over identifiers `allow-read` and `default`, an
  optional description, up to two inline permissions and one set per file, and
  a default that is absent, without description or with one. Two files and two
  permissions per file are the least that make duplicates across and within
  files happen; the optional description is what distinguishes a whole
  replacement from a field merge. Checks `TypeOK`, `PermissionsLastWriteWins`,
  `SetsLastWriteWins` and `DefaultLastWins`.
* `manifest_reserved_default` (MC_ManifestReserved.cfg, violation): TLC finds
  a one-file input with a set named `default` that ends up in
  `permission_sets`, against spec.md §6 which reserves that identifier.

### Proofs (ManifestAggregationProofs)

Assumptions used: `NoValueAssumption` (None is not a description or an
identifier), `InputFilesAssumption` (the files passed to `Manifest::new` are
well-formed `PermissionFile`s) and `NoValueNotDefault` (None is not a
materialised default set). All three hold on every TLC run, which evaluates
them.

* `LastIndexSpec`: when an identifier occurs in a sequence, `LastIndex`
  picks an occurrence with no later one. The existence of a last occurrence is
  the least element of `{Len(s) - k}` under `<`, from `WFMin` and
  `NatLessThanWellFounded` of the library. `PermissionTableSpec`,
  `SetTableSpec`, `ExtendSpec`, `ExtendDomain` and `DefaultSetFields` state
  what the table builders, `Extend` and `DefaultSet` return.
* `TypeCorrect == Spec => []TypeOK`.
* `PermissionsLastWriteWinsHolds` and `SetsLastWriteWinsHolds`
  (`Spec => []...`). The invariants only speak of the files already consumed
  (`1..next-1`), so each is inductive together with `TypeOK`: an identifier of
  the file being consumed gets its last occurrence in that file (by
  `LastIndexSpec`) and nothing later exists; any other identifier keeps its
  entry and gains no later occurrence.
* `DefaultLastWinsHolds`: inductive with `TypeOK`; a file with a default
  becomes the last one with a default, a file without leaves the witness of
  the previous state valid.

What stays with TLC: the violation of `ReservedDefaultIdentifier`, and
everything about the concrete small instance. Out of the prover's reach in
general (and so not attempted): liveness and `ENABLED`, induction over data
(what a recursive definition computes for every input), and modules that
declare `RECURSIVE` operators.

## 4. PlistMerge

`merge_plist` (`tooling/cli/src/mobile/ios/mod.rs` 278-303). State: `disk`
(path to content: a dictionary over `Keys`, `NonDict` for a readable plist
whose root is not a dictionary, `Unreadable` for a file `from_file` fails
on), `disk0` (the disk at the call, a history variable for the properties),
`srcs` (the argument), `i` (the loop index), `destPlist` (`dest_plist`),
`pc` and `result`. Actions, in the code's order: `SkipSource` (the
`if let Ok` fails), `LoadDestFails` (the `?` of the lazy destination load on
the first readable source), `MergeSource` (load if `is_none`, overlay when
both roots are dictionaries), then `FinishUnwritten` (nothing loaded: `Ok`
without a write), `WriteDest`, and `WriteFails` (the write fails before
`File::create`, leaving the file, or after it truncated the file, leaving
it `Unreadable`). A source equal to the destination is read from `disk`,
as the code reads it from the file system and not from `dest_plist`.

Run `plist_merge` (MC_PlistMerge.cfg, pass): three paths, two keys, two
values, every disk, every `src` of at most two paths (the destination
included); 88,897 states. Two sources are the least that make an overlay
order and a re-read of the destination observable; two keys let one source
override and another add. It checks `MergedSoFar` (while the loop runs,
`dest_plist` is None until a readable source, then the destination read once
with every dictionary source so far overlaid, last source winning) and
`MergeOutcome` (the result and the disk at return against the declarative
reference `MergedUpTo`). `CHECK_DEADLOCK FALSE`: the function returns.

### Proofs (PlistMergeProofs)

From `PlistAssumption` (the destination is a path, the arguments are
sequences of paths, and the sentinels are distinct and not dictionaries):

* `TypeCorrect == Spec => []TypeOK`, with `OverlayDict` (an overlay of two
  dictionaries is a dictionary).
* `MergedSoFarHolds` and `MergeOutcomeHolds`, both from one inductive
  invariant `IInv`: `TypeOK`, the disk equals `disk0` while the loop runs,
  `MergedSoFar` and `MergeOutcome`. The disk clause is the strengthening: it
  is what makes the loop's reads of the file system the reads the reference
  takes on `disk0`. The argument rests on `MergedStep`: the reference over
  `n + 1` sources is `MergeInto` of the reference over `n` and source
  `n + 1`, proved key by key from `LastDefiningExists` (a last defining
  source exists: a least element under `<` of `{n - j}`, by `WFMin`),
  `LastDefiningUnique` and `MergedAt`. `MergedEmpty` and `MergedKind` give
  the loop's first load and the outcome clauses (the merge is never None,
  and unreadable exactly when the destination was).

### Atomic specification

`PlistMergeBase` holds what the step model and its specification share: the
constants, `disk`, `disk0`, `srcs`, `result`, the reference `MergedUpTo`
and `Outcome` (the old body of `MergeOutcome`, which is now
`pc = "done" => Outcome`). `PlistMergeAtomic` is what `merge_plist`
promises: from the initial disk, one step `Return` sets `result` to Ok or
Err and leaves a disk satisfying `Outcome`; nothing else ever changes.

Run `plist_merge_refinement` (MC_PlistMergeRefinement.cfg, pass; the
instance of `plist_merge`) checks `AtomicSpec`: `Atomic!Spec` with
`Atomic == INSTANCE PlistMergeAtomic WITH phase <- IF pc = "done" THEN
"returned" ELSE "running"`; `i` and `destPlist` are hidden. Each loop step
must be a stutter: a write moved into the loop breaks it (mutant
`MergeSourceWriting`). No fairness is assumed and no liveness property is
checked: the loop is bounded by the list of sources, so termination holds
by construction and says nothing about the code.

`Refinement == Spec => Atomic!Spec` is proved in PlistMergeProofs:
`Init => Atomic!Init`, and under `IInv /\ IInv'` every step is a stutter
(`LoopStep`) or a `Return` (`ReturnStep`, whose `Outcome'` is
`MergeOutcome` in the state after the step). `AtomicContents` and
`AtomicOutcome` identify the instance's definitions with the base module's.

## 5. RemoteUrlPattern

`acl/mod.rs` 197-266 and 318-331. A pattern text is a record of five
components (`protocol`, `hostname`, `pathname`, `search`, `hash`). Username,
password and port are never normalised and match like the hostname, so they
are left out. A URL is a record of component values. A compiled component is
`*`, an exact value, or a glob of `Globs` (such as `/*`, `*.h`) that matches
a given set of values. `BadHosts` are hostnames `parse_constructor_string`
rejects. `BadPaths` are pathnames `UrlPattern::parse` cannot compile.
`MatcherErrors` are URLs on which the matcher's `test` errs.

State: `authored` (the capability's texts in order), `phase`, `built`
(`from_str` at build time), `embedded` (the texts `ToTokens` writes),
`runtime` (the `.parse().unwrap()` at start-up) and `context` (the last
request's `ExecutionContext`, its URL and whether the content was local).
Actions: `BuildFails` (a `?` of `from_str`), `Build` (every pattern parsed
and embedded), `Load` (the generated `#url.parse().unwrap()`: every
embedded text parsed again, or `phase = "panicked"` when one does not
parse), and `Request`. `Request` classifies with `Classify`
(spec_modelled: the runtime does it outside `src/`): Local for local
content, else `Remote` with the first pattern whose `test` is true, else no
context.

Run `remote_url_pattern` (pass, 42,203 states): 60 texts (two schemes, a
host, its subdomain glob and a rejected host; paths absent, `/`, `/p`,
`/*` and an uncompilable one; search absent or given; hash empty), up to
two patterns, 16 URLs, one of which errs. The properties are these:

* `FailClosed`: remote content gets `Remote{p}` only if the authored text
  of `p` matches the URL by the spec's rules (`RefMatches`: a search or
  hash absent or empty, and a path absent, empty or `/`, match anything)
  and no earlier one does. It gets no context when none matches, never on
  a matcher error, and is never classified Local. Mutants: `test`
  failing open, and a `/` path not widened.
  Because it is stated over the authored texts, it also covers the round
  trip through `ToTokens`: a text embedded other than as written would be
  re-parsed into patterns that were never checked.
* `TypeOK`: a `RemoteUrlPattern` exists only for a text both parsers
  accept. Mutant: the build ignores parse errors.

Proofs (RemoteUrlPatternProofs), from `UrlPatternAssumption` (texts and
URLs have the five components; `*` is not a glob):
`FailClosedHolds` and `TypeOKHolds`.

* The inductive invariant `IInv` says what `Build` and `Load` computed from
  the texts: `built` is `FromStr` of each text, `embedded` the texts,
  `runtime = built` once loaded. Since the embedded texts are the ones
  that parsed at build time, `Load`'s panic branch is never taken. It also says the context is
  `Classify(runtime, shown, local)`, and is local until the patterns are
  loaded. That second clause is the strengthening: `Load` changes
  `runtime` under an existing context.
* `TestIsReference` shows that `from_str`'s widenings are exactly the
  reference's wild components.
* `FirstMatchExists` (a least element, by `WFMin`) gives the first match
  `Classify` chooses.
* For `TypeOKHolds`, `IInv` also bounds `authored` to at most
  `MaxPatterns` texts. It says `built` and `embedded` are empty before a
  build or after a failed one, and `runtime` is empty until loaded.
  `FromStrPattern` shows that `FromStr` of a text both parsers accept is a
  `Pattern`.
* Writing that proof exposed a model error. `Pattern` read
  `[Components -> UNION {..} \cup {"*"}]`, which parses as
  `UNION ({..} \cup {"*"})`, so the `*` component was not in the set. The
  parentheses are now explicit, and the run still passes (42,203
  states).

## 6. PermissionCodec

`acl/mod.rs` 114-181 and 334-373. A permission's `commands` and `scope` are
written by serde and read back, then embedded by `ToTokens`; the runtime
decides commands on the embedded copy (`Decide`, spec_modelled, deny wins).
The serialized form is a record of the keys actually written:

* `commands` is always written;
* `scope` is written only when not `Scopes::is_empty`;
* each scope list is written only when `Some`.

A missing key reads back as `None` or as the default. Run
`permission_codec` (pass) covers two commands, one scope value, and lists
of at most one entry, so absent, empty and filled lists all occur:

* `PermissionPreserved`: both ways give back the permission exactly. Mutant:
  an `is_empty` that treats `Some(vec![])` as empty, which spec.md §4.2 warns
  against.
  A second mutant: a copy-paste slip in `Commands::to_tokens` (the allow
  list written as the deny list).

Proofs (PermissionCodecProofs), from `CodecAssumption`:
`PermissionPreservedHolds`. It holds for lists of any
length and for any command and scope values.

* `RoundTrip` proves `Deserialize(Serialize(p)) = p` for every
  permission. A scope skipped by `is_empty` reads back as the default, and
  a skipped list reads back as `None`.
* `TokensRoundTrip` proves that the `ToTokens` record is the permission.
* The inductive invariant records each stage's output:
  * the wire is `Serialize(perm)` from `deserialize` on;
  * `decoded = perm` from `embed` on;
  * `embedded = perm` at `run`;
  * every decision made is `Decide(c, perm.commands)`.

## 7. IosDeviceSelection

`mobile/ios/mod.rs` 161-256. Each of `connected_device_prompt` and
`simulator_prompt` is the set `Outcomes` of what it may return for a
listing:

* a failed or empty listing fails;
* with a target, `Best` (`rev()` then `max_by_key`, which keeps the last
  maximum) is accepted only if `Accepts` (score above
  `MIN_DEVICE_MATCH_SCORE`);
* without a target, the prompt picks among several devices or fails.

The actions follow `device_prompt`: `ConnectedChosen`, `ConnectedFailed`,
`SimulatorChosen`, `SimulatorFailed`, `StartSimulator`, `StartFails`. Run
`ios_device_selection` (pass, 50,340 states) uses lists of up to two and
scores 0..2 around a threshold of 1, so ties and the boundary both occur.
It checks:

* `FirstBestSelected`: the tie-break is first listed wins;
* `ConnectedPreferred`: a matching connected device is used, and no
  simulator is started.

The listings, the scores and the two prompts' `Outcomes` live in
IosDeviceSelectionBase. Two modules extend it: IosDeviceSelection, the
model step by step, and IosDevicePrompt, the specification of what
`device_prompt` promises, in one step:

* `ReturnDevice`: Ok with a device the connected prompt may return;
* `ReturnSimulator`: only when that prompt may fail, Ok with a simulator
  the simulator prompt may return, which is the one simulator started;
* `ReturnErr`: only when that prompt may fail, an error with nothing
  started.

`PromptSpec` says that the model implements this specification. The
mapping is the identity on the inputs, `started` and `result`, and hides
`pc` and `chosen`. Run `ios_device_prompt_refinement` (pass, the same
instance) checks it. Its mutant takes the fallback whatever
`connected_device_prompt` returned.

Proofs (IosDeviceSelectionProofs), from `SelectionAssumption` and
`OutcomeAssumption`: `TypeOKHolds`,
`FirstBestSelectedHolds`, `ConnectedPreferredHolds` and the refinement
`PromptRefinement`. They hold for lists of any length, any integer scores
and any threshold.
`OutcomeAssumption` states that the model's markers `Fail` and `None` are
not device names or selections. That is true in the code: `Err` and
`Option::None` are not `Ok(device)`.

* The inductive invariant `IInv` ties each stage to what its prompt may
  return (`Picked`):
  * the chosen simulator and a returned device are outcomes of their
    prompt;
  * the simulators are only reached after the connected prompt could
    fail;
  * only the chosen simulator is started.
* `BestIsFirstBest` shows that `rev()` followed by `max_by_key` (the last
  maximum) is the first maximum of the list as listed.
  * It needs a maximum to exist. `MaxIndexExists` proves that without
    induction: the least prefix with no largest element (`WFMin` on
    `Nat`) cannot exist, because its prefix one shorter has a largest
    element, and that element or the new one is the largest.
  * `LeastExists` also gives the first index with the top score.
* `PromptRefinement` rests on the same `IInv`, which `PendingFacts` reads
  before the return:
  * nothing is returned or started yet;
  * past the connected prompt, that prompt may fail.
  * Each returning step is then one of the specification's three actions,
    and every other step is a stutter. `PromptOperators` equates the
    instance's operators with the base module's.

## 8. MigrateCommand, PluginNew, MobileEntryPoint

* `migrate/mod.rs` 14-33. `MigrateStep` and `MigrateStepFails` cover the
  config, manifest and frontend migrations in order. Then come `AddPlugin`,
  `AddPluginFails` and `Finish`. `MigrationPrefix`: what is applied is
  always a prefix of the full migration, nothing is rolled back, and Ok
  means everything was applied. Run `migrate_command` uses up to three
  reported plugins. `MigrationPrefixHolds` (MigrateCommandProofs) proves
  it for any number of plugins. The inductive invariant adds:
  * `pc = "migrate"` means fewer than three steps, no plugin added, and no
    result;
  * `pc = "plugins"` means all three steps are done;
  * a result exists exactly when the command returned.
* `plugin/new.rs` 40-67. `CurrentDir`, `CreateDir` (with or without
  `--directory`, filling the default), `StartInit` (`From<Options>`'s
  `unwrap`), and their failures. Paths are abstract, and `Join` resolves a
  relative path against the cwd. `InitInCreatedDir`: the unwrap never
  panics, and init gets the directory just created. Run `plugin_new` covers
  relative and absolute directories. `InitInCreatedDirHolds`
  (MacroAndPluginNewProofs) proves it for every set of cwds, names and
  directories. That module EXTENDS PluginNewBase (the constants, the
  variables and `InitInCreatedDir`) and takes PluginNew as the instance
  `PN`. An instance's ASSUME is not a fact there, so the theorem has
  `PluginNewAssumption` and `PathAssumption` as its hypotheses, and TLC
  evaluates both on `plugin_new`. Option::None is the constant `None`. Its inductive invariant `IInv` says that from `init` on,
  `directory` is set and `Join[cwd, directory]` was created.
  * `PathAssumption` holds in the code. `current_dir()` is absolute, so
    `cwd.join(d)` is absolute. `Path::join` with an absolute argument
    replaces the base, so `Join[c, Join[c, d]] = Join[c, d]`.
    `MC_PluginNew`'s `Join` satisfies it, and TLC evaluates it there.
* `core/tauri-macros/src/mobile.rs` 11-83. `GetEnvVar` runs once per
  variable, with its replacer and the shared error slot; `Emit` follows.
  A set value is passed through its replacer and then to
  `format_ident!("{}", ..)`, which panics when the result is not a Rust
  identifier (`IsIdent`: a first character of `IdentStart`, the rest of
  `IdentContinue`); the macro then stops with `output = [panic |-> var]`
  and nothing is emitted. Run `mobile_entry_point` takes every string of
  at most two characters over `a`, `1`, `-` and `_`: the empty string, a
  leading digit and a `-` in the prefix (which is not replaced) all occur.
  `EntryPointOutcome`: when a set variable's replaced value is not an
  identifier, the macro panics on the first such variable, before any
  missing-variable error is reported. Otherwise code is emitted exactly
  when both variables are set, with `-` turned into `_` in the package
  name, and else exactly one error is emitted, naming `CARGO_PKG_NAME`
  whenever that is missing (a missing prefix is then unreported).
  Mutants: the error slot ignored, and the first error kept.
  * `IdentAssumption` states what the proof needs of the identifier
    classes: `_` may start one, every start character may continue one,
    and `-` may not; Rust's `XID_Start`/`XID_Continue` satisfy it.
  * `EntryPointAssumption` also states that an unset variable (`NoValue`)
    is neither a value nor a variable's name. `Err` of `std::env::var` is
    not a string.
  * `EntryPointOutcomeHolds` (MacroAndPluginNewProofs) proves
    `EntryPointOutcome` for values of any length over any characters,
    from `EntryPointAssumption` and `IdentAssumption`. Facts that relate the literal `"_"` to
    `Chars` are proved in Zenon steps (`AssumptionParts`,
    `UnderscoredFacts`). The SMT encoding does not accept them next to
    `Seq(Chars)`, and the generic `ReplaceInSeq` carries the sequence part.
    PluginNew's assumptions are hypotheses of its own theorem only. The
    SMT encoder rejects every obligation whose context holds `Join[c, d]`
    of `PathAssumption`, and the macro's leaves need SMT.
  * The inductive invariant `EIInv` says what the slots hold after each
    `get_env_var` call:
    * each ident is its variable's replaced value, or empty when unset;
    * the error slot is set exactly when a variable read so far is unset;
    * the slot names an unset variable, and `CARGO_PKG_NAME` once that
      one was read unset;
    * each ident read so far is an identifier (else the macro panicked);
    * the output is the panic of the next variable, or built from the
      idents and the slot once both were read.

All of these runs set `CHECK_DEADLOCK FALSE` because each function returns
and stops.

## 9. What is proved and what is only checked

TLAPS proves, for every value of the constants that satisfies the named
assumptions, the theorems listed in `PROJECT.json` "theorems":

* ManifestAggregation's invariants;
* PlistMerge's invariants and refinement;
* RemoteUrlPattern's two properties;
* PermissionCodec's property;
* IosDeviceSelection's three properties, and its refinement of
  IosDevicePrompt;
* `MigrationPrefix`;
* `InitInCreatedDir`;
* `EntryPointOutcome`.

Every invariant and every safety refinement that a passing run checks is
stated by a theorem.

Each invariant proof follows the same pattern. An inductive invariant
`IInv` is first checked by TLC as an invariant of the run. Then three
facts are proved:

* `Init => IInv`;
* `IInv /\ [Next]_vars => IInv'`, with one case per action;
* `IInv => Inv`.

They are combined by `PTL`. An invariant is seldom inductive as it stands.
It describes the final state, and the strengthening says what each earlier
stage has already computed.

No liveness property is checked or proved: every function modelled is a
bounded sequence of steps or a loop over a finite list, so its termination
holds by construction (the provers would not handle fairness or ENABLED in
any case). These stay with TLC:

* The violation run `manifest_reserved_default`. It shows a reachable
  state, and a proof of that would need a behaviour as a witness.
* Any fact about a recursive definition over all inputs. The library's
  induction theorems take an operator parameter that the provers cannot
  instantiate.
* Modules with RECURSIVE operators. They lose the SMT backend.

## 10. Not modelled

See `PROJECT.json` "components" for the full list:

* the error enum has no behaviour;
* the `ToTokens` impls other than those of `ExecutionContext`, `Commands`,
  `Scopes` and `Permission` copy data literally;
* CLI dispatch and Xcode opening call external tools;
* `get_config` (`mobile/ios/mod.rs` 105-159) runs once, in a fixed order,
  with nothing concurrent or persisted: a model of its `or_else` chain and
  feature merge would restate each line, so it is left to unit tests;
* the multiwebview example is UI glue.

Two parts are modelled from the spec because they sit outside `src/`:

* the runtime's origin classification (`Classify`);
* the deny-wins decision (`Decide`).
