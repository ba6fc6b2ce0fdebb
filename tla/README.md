# capnagent: specifications, model checking and proofs

capnagent is a capability library for agents that call tools. An issuer mints
macaroon-like tokens whose caveats are predicates over the call; any holder may
attenuate a token by adding caveats; a verifier decides a call and an auditor
signs a receipt of the decision; an MCP guard puts this decision in front of
every tool call. This directory holds TLA+ models of these parts, TLC
configurations that check them on small instances, and TLAPS proofs for all
instances. `PROJECT.json` lists the runs, the mutants that show each property
can fail, and the source lines of every definition.

## 1. Inventory

| part | state | operations | interaction |
|---|---|---|---|
| chain (`core/capability.rs`, `issuer.rs`, `Verifier::verify`) | builder: identifier, binding, caveats, running MAC; token: the same | `issue`, `holder_of_key`, `caveat`, `build`, `attenuate`, `parse`, `verify` | tokens travel as strings; several holders attenuate copies of one token |
| nonce store (`core/nonce_store.rs`) | `Mutex<HashMap<nonce, expiry>>` | `try_record`, `clear` | shared by verifiers and threads; the clock comes with each call |
| verification pipeline (`core/verifier.rs`) | root key, optional list, optional store, lifetime of nonces | `with_*`, `without_*`, `verify_with_context`, `verify_with_proof` | calls chain, proof, nonce store, revocation list, caveats, auditor, in this order |
| revocation (`core/revocation.rs`, wasm `lib.rs`) | Revoker: a set; verifier: the installed list | `revoke`, `unrevoke`, `publish`, `with_revocation_list` | lists travel as JSON from issuer to verifiers |
| receipts (`core/audit.rs`) | the audit key; a file | `sign`, `verify`, `AuditLog::open`, `append`, `iter` | several handles and processes may append to a file |
| caveat language (`core/caveat_dsl.rs`) | none | `parse`, `evaluate` | called by the pipeline for every caveat |
| context (`core/context.rs`) | none | building, canonical hash of the arguments | read by caveats, challenge and receipts |
| wasm binding (`wasm/lib.rs`) | handles: present, or consumed by a call | the core's calls behind checks of the arguments; disposal | one event loop; a handle is shared by everything that holds the object |
| TypeScript package (`packages/capnagent/src`) | whether `init()` was called; the wrapper of a verifier swaps its handle | the binding's calls, the class of each error, receipts rebuilt on the way out and back, a clock for contexts without a time | programs write to receipts between the two |
| Python binding (`py/lib.rs`) | wrappers: a value, or none | the same calls, the value taken out after the checks | uses the core |
| MCP guard (`mcp/guard.ts`, `wrap.ts`) | none between calls; a call's receipt within one | `guardCall`, `wrapMCPClient` | awaits four callbacks of the program: context provider, signer, `onReceipt`, tool |
| HTTP agent (`examples/mcp-http-agent`) | a capability; the client's log | issue for an allowlist of origins, call, fetch with redirects | the guard; a URL parser used by check and fetch; servers |
| shell agent (`examples/mcp-shell-agent`) | a capability; the client's log | issue for a command and its subcommands, call, execute | the guard |
| filesystem agent (`examples/mcp-fs-agent`) | capabilities to read and to write; the file system | issue, call, and the tools, which await the file system | the guard; calls that run at the same time share the files |
| shopping agent (`examples/shopping-agent`) | the conversation, the results of one turn, the shop's log | run the loop of a model and its tool uses, or a script | two guards in front of one shop; a model that answers anything |
| command line (`cli/main.rs`) | none | mint, verify, issue from a file | uses the core |

**What is hard here.** Threads with unrelated clocks meet in the nonce store.
A proof outlives the entry that remembers it. Legs of the pipeline have effects
(the store) before later legs refuse. Tokens and lists are in the hands of
others between their making and their checking. Guarded calls interleave at
every await, with the verifier and the capability changing under them. An
append to the log is two writes, either of which may fail or be the last thing
a process does. A hand-written parser decides what a caveat allows. An agent
checks one reading of a url, an argument vector or a path and acts on another.
The tools of the filesystem agent are several steps each, with other calls in
between. A model may ask for any tools in any order, and a run may fail between
two of them. `PROJECT.json` lists each hazard at its line with the properties that catch it.

**What makes each part correct.**

* chain: what verifies extends something minted; what was minted verifies;
  a signature determines the contents.
* nonce store: no two acceptances of one proof overlap; check and insert are
  one decision for every observer.
* pipeline: a proof of the default challenge clears once; the store holds only
  proven proofs; no decision without the proof the binding asks for; attenuation
  only narrows; a listed identifier is refused.
* revocation: only contents the Revoker published are installed; a published
  list answers exactly; a refused list costs nothing behind the JS binding.
* guard: the tool runs only behind an allowing, handled receipt, once per proof
  while a nonce store remembers it, on a decision about the present state, and every call settles.
* log: reading is in order, what can be read stays readable, every loss has a
  cause that is visible in the file.
* caveat language: the parser means what the grammar says; errors never allow;
  integer caps and timestamps decide by exact numbers and instants; only a fact
  of the literal's type is compared.
* bindings: a program that catches errors and goes on never holds less
  restricted a capability than it asked for, nor a verifier configured otherwise
  than it was told.
* TypeScript package: the class of an error says what went wrong; a receipt that
  was written to is accepted exactly when it reads as it was signed; the time in a
  proof or a list is the one it was given.
* agents: what was checked is what is done: only listed origins, commands and
  subcommands, and the inside of a sandbox, are reached; calls that do not overlap on
  one file behave as if each were one step; a model is told what happened, once per use;
  runs and calls end.

## 2. Modules

    ReplayWindow <---- implemented by ---- NonceStore <- MCNonceStore
                                               ^-------- NonceStoreProofs
    MacaroonChain <- CapabilityLifecycle <- MCCapability
         ^                   ^------------- CapabilityProofs
         +------ Verifier <- MCVerifier, VerifierProofs (instantiates ReplayWindow)
    RevocationList <- Revocation <- MCRevocation, RevocationProofs
    AuditLog <- MCAuditLog, AuditLogProofs
    CaveatDsl  <--------- MCCaveats (extends MCCapability), CapabilityProofs
    CivilTime <- CaveatValues <-^---------^
    Handles <- MCBindings, BindingsProofs
    Sdk  <---------^--------------^
    GatedTool <---- implemented by ---- McpGuard <- MCMcpGuard, McpGuardProofs
      ^------- HttpAgent, ShellAgent, FsAgent <- Demos <- MCAgents
      ^------- ShoppingAgent <------------------------------^
    Demos, ShoppingAgent <- AgentsProofs

(Arrows point from a module to the one it extends.)

**ReplayWindow** is the abstract store: a set of windows granted, a request
granted if and only if no window of its nonce covers its time, in one step.

**NonceStore** is `InMemoryNonceStore`. `try_record` is the steps `Call`, `Lock`,
`Lookup` and one of `Reject` and `Insert`, with `Return` to the verifier;
`holder` is the mutex, `entries` the map, `req` the arguments, in which the
clock reading was taken before the mutex was waited for. `Clear` takes the
mutex; `Restart` is a new process with an empty store. `granted` is a history
variable and is what ReplayWindow has as its state; the refinement maps the
program counters to idle, pending and answered.

**MacaroonChain** has the MAC chain as the sequence of everything folded into
it, which is what a collision-free MAC amounts to. Predicates and the binding
message `"__hok:" || pubkey` are byte strings of one kind: whether a predicate
is spelled like a binding message is left to the constants.

**CapabilityLifecycle** is the builder and attenuation. `tokens` holds every
capability made together with what it was built from (history fields). The
records that `parse` may return are those with arbitrary contents and a
signature that circulates or extends one that does: `WireRecords`.

**RevocationList** is the signed list; `BinarySearch` gives the set of answers
that the standard library allows a search of an unsorted slice to give.

**Verifier** composes the chain, the store, the list and the caveats: verifiers
of one process, their configuration, and calls. A call is one step because it
borrows the verifier immutably and meets other calls only in `try_record`,
which NonceStore shows to be one indivisible decision; `call` holds its arguments
and outcome until it returns. `seen` is the nonce store by proof (a proof
stands for the SHA-256 of its bytes, and for a key and the bytes it signed).
`cleared` is a history variable.

**Revocation** has the Revoker, the lists it published with the set each
stands for, and what verifiers behind the Rust API and the wasm binding
installed. A list in transit is any contents with any published signature, or
one signed with another key.

**McpGuard** has one program counter per call. Between two awaits JavaScript
runs to completion, so a step is the code from the end of one await to the
start of the next: `GuardCall`/`CallTool` to the context provider;
`ContextSettles` to the signer, or through the whole of `verifyWithContext` to
`onReceipt`; `SignerSettles` through `verifyWithProof` to `onReceipt`;
`ReceiptHandled` to the tool or the denial; `ToolSettles`. `CallbackFails` is a
rejection of either of the first two callbacks. `World` is what the program may do
meanwhile: install a list, put in a new nonce store or empty the one there is, set
the lifetime, dispose of the capability, let time pass. The pipeline appears with
its outcomes, their order and its effect on the store. The store is optional in the
code, none by default (`verifier.rs:74`), and the guard does not ask for one: a
behaviour starts with a store or without. A context carries its own time (`timed`)
or leaves it out; then the challenge has the clock's time before the signer is
awaited, and the store is asked with the clock's time after it (`NowOf`), so a proof
can outlive its entry while its call waits. `entry` is history: when the proof of a
call was recorded and until when it was to be remembered.

**GatedTool** is the guard without its awaits: each call is decided once, its
receipt is there first, and a denied call never runs. McpGuard is shown to
implement it, and the agents are built on it.

**AuditLog** has the file as a sequence of receipts, torn parts and newlines.
`WriteJson` and `WriteNewline` are the two `write_all` calls; `JsonFails` and
`NewlineFails` stand for errors and for the death of the process, after which
the same handle or a new one goes on at the end of the file. `Parsed` has the
places of what `iter` yields.

**CaveatDsl** has the parser and `eval_expr` over tokens. `Parser` is a function over
the calls of the three parse functions, at every position and, for the two loops,
with every left operand they may hold; each call is defined by the calls it makes
(`ParserStep`). `Meaning` is an independent reading of the grammar in the module's
documentation: it splits a predicate at the operators that stand outside all
parentheses. An expression is what `eval_expr` makes of it (`Evaluated`). Blanks, the
spelling of comparisons and their evaluation are abstracted: a comparison is a
token that names its outcome. Tokens are set apart by blanks except before a
closing parenthesis; the token `now` is a comparison that ends in a timestamp,
which such a parenthesis spoils.

**CaveatValues** is one comparison: `Resolve` is `resolve_ident`, `JsonToValue`
and `ParseValue` the conversions of arguments and literals, `ApplyOp` is
`apply_op`. A number is its exact value, a multiple of 1/Grain, and whether its
text has a point; `ToF64` rounds it to Precision binary digits, half to even, and
to infinity from 2^Exponent on, as the double format does with 53 digits. `TwoTo`
are the powers of two, by their recursion, and Grain is one of them. The state is
the comparison asked.

**CivilTime** has the arithmetic of timestamps: `WellFormed` and `ParseRfc3339`
(`parse_rfc3339` on the fields), `DaysFromCivil`, `SystemTimeToUnix`. The lengths
of minute, hour and day are constants, so that instants fit TLC's integers. The
second half is the reference: a calendar that counts the days of the years
between, and the instant of a timestamp.

**Handles** has the objects a program holds behind one of the two bindings, which
`binding` names. `object` maps wrappers to what they have: a builder or a
capability with the set of restrictions it carries, or `Gone`, after a call
consumed it. `asked` is history: what the program asked this wrapper and its
ancestors for. The bindings differ in what a refused call leaves (`Refuse`) and
in whether `attenuate` consumes. `verifier` is the value behind the one Verifier
wrapper, `told` what the calls that returned say it has. Two panics are steps: a
binding after a caveat, and a JSON context without a time; in wasm they poison
the instance, after which any call may fail.

**Sdk** is what the TypeScript package adds: `TooEarly` is `ensureReady`,
`ErrorClass` is `mapWasmError` over the words of a message, `Causes` why each
method may throw. `Public` and `ToRaw` are the two translations of a receipt, with
`Write` for a program in between; `WithDefaultNow` is the clock of a context.
`written`, in `proof` and `verdict`, is the context as the caller wrote it.

**HttpAgent** has the issuer's check of its allowlist (`RejectionReason`), the
context provider (`NormalizeUrl`), what the caveats make of it (`HttpAdmits`) and
the fetch, hop by hop. What the URL parser makes of a text is `Form`, given.
**ShellAgent** has the issuer's checks, the naming of the first two words
(`NormalizeArgv`) and the stub that executes the whole vector.

**FsAgent** has both issuers, `canonicalizePathArgs` with percent-decoding and
`..`, and the client's tools, cut at each await of the file system: `writeFile`
empties and then fills, `editFile` reads and then writes, a walk lists and visits.
`create_directory` makes the directories on the way, also those of a sandbox that
is not there yet.
`serial` is what the files would be had each call run at once, in the order they
began. Calls `Clash` when they rewrite the same file or one of them makes or moves
directories, and `crossed` remembers that two such ran at the same time: then an
update may be lost, as `editFile` writes what it read an await earlier, and what one
has put in a file may stay behind the end of another's text (`FsFill`). Nothing in
the repository says otherwise, so no property claims more.

**ShoppingAgent** has the mock shop, the two guards and their routing, the loop of
`runLlmDemo` with its stop reasons, bound and error path, one tool use after the
other, and the script of `runDemo`. The model answers any sequence of uses with
any stop reason, or fails.

**Demos** has the calls of the agents' own demonstrations and the decisions they
expect, with named assumptions on what the URL parser and the decoding make of them.
**MCCaveats**, **MCBindings** and **MCAgents** compose modules that share
a run, one of which acts in each behaviour.

## 3. Runs

| run | instance | shows |
|---|---|---|
| NonceStore | 2 threads, 2 nonces, times 0..2, lifetimes 0..2 | mutual exclusion of the decisions, saturating expiry, refinement of ReplayWindow |
| Verifier | 2 verifiers, 1 store, 6 capabilities, 3 proofs, 3 lists, times 0..3, lifetimes 0 and 2 | the pipeline's properties |
| Revocation | 2 identifiers, 2 times, lists of up to 3 entries, 3 publications, one verifier of each kind | what can be installed, exactness, lists are kept |
| McpGuard | 2 calls, times 0..2, lifetimes 0 and 1, with and without a nonce store | gate, one run per proof while a store remembers it, current decisions, every call settles |
| AuditLog | 3 handles, 5 receipts, 2 failures | order, finality, causes of loss |
| Caveats | capabilities: 2 root keys, identifiers, public keys, predicates; up to 2 caveats, 2 bindings, 2 tokens. Caveats: all predicates of up to 6 of 8 tokens; numbers from -17 to 17 in quarters with 3 binary digits; dates at both ends of all months of 11 years, times and zones; 14 identifiers, 9 literals | only extensions verify, all that is bound at most once verifies, signatures determine contents; parser and evaluator against the grammar, order of numbers and exactness of integer caps, timestamps as instants, no comparison across types |
| Bindings | 3 wrappers, 2 good predicates and a bad one, lifetimes below and at the width, both bindings; in the package 2 tools, times 0..2, 7 numbers around 0 and 2^64 | restrictions and configuration survive failed calls; error classes, receipts and times of the package |
| Agents | 2 concurrent calls of the HTTP, shell and filesystem agents, 11 urls, all vectors of up to 2 words and one of 3, 13 locations, sandboxes that are there and one that is not; a shopping run of 2 turns with up to 2 of 8 uses each | what each agent reaches, effects of overlapping calls, what is reported, that the demonstrations' calls are decided as they expect, that runs end |

The bounds are the smallest in which everything of interest happens. For the
nonce store: a saturated expiry needs a time plus a lifetime above the largest
time, an expired entry needs a lifetime shorter than the time that passes, and a
race needs two threads. For the chain: confusing two histories needs two of
each kind of value, dropping or reordering needs two caveats, rebinding two
bindings, and a mix-up of tokens two tokens. For the pipeline: a proof that
outlives its entry needs times beyond the lifetime; two verifiers with different
lifetimes need two verifiers; the capabilities are a bound one, its attenuation,
the latter with its caveat torn off, a bearer one whose predicate evaluates, one
whose predicate does not, and the attenuation of the last by the other predicate. For lists:
reordering needs two identifiers, an older list replacing a newer one two
times, duplicates three entries. For the guard: what is said of calls is said of
each alone or of two, so two calls meet in every order; a lifetime of 1 has proofs
that expire during the await of a signer and proofs that do not, and with 0 nothing
is remembered. The proofs are for any number of calls. For the log: a receipt between two torn ones needs two
failures and three appends; two more appends show that the log recovers. For
the parser: six tokens hold a group with an operator, beside another operator.
For numbers: three binary digits make halves and quarters of small numbers
collapse, and even whole numbers from 9 on; -68 to 68 quarters reach infinity at
64 on both sides. For dates: the days next to every end of a month, leap years, a
century that is one and two that are not, and years before 1 and 1970; the clock
is one fraction before, at and after each instant. For handles: a chain of three
wrappers is a builder, what it was made into and what that was attenuated to, and
collected wrappers are used again, so chains have no bound. For the package: one
step of the clock makes two readings differ, and a number at, below and above
2^64 (16 here) wraps. For the agents: two calls overlap, three would overlap in no
other way as no tool looks at more than one other; one redirect leaves an origin;
two turns have an answer that is asked about again, and two uses in one have a
first that fails and a second that is not told; the odd urls, words and paths are
named in MCAgents.
Symmetry is used only where no property tells the elements apart.

Each property of each passing run has a mutant beside the definition that it
changes as a plausible mistake would change it, under which TLC finds the
property violated. The types of all modules are theorems, and so are all the safety properties
(section 4).

Four runs check what a comment or document of the repository says and TLC finds
otherwise (the "findings" of `PROJECT.json` quote both sides):

* `CapabilityHokPrefix`: the prefix does not keep binding and caveat apart when a
  predicate is spelled `__hok:` followed by the bytes of a printable key.
* `CapabilityRebinding`: a second `holder_of_key` does not rebuild the chain, as
  `issuer.rs:61-65` says it does, but binds once more: the capability does not verify.
* `RevocationReorder`: the signature does not cover the order of a list, the
  search depends on it.
* `AuditLogGlue`: a torn line costs the receipt after it, which was acknowledged.

More disagreements are visible in the models and have no run of their own:

* A parenthesis right after a timestamp is read as part of it, which the grammar
  of `caveat_dsl.rs:27-37` does not say. The predicate is refused.
  `FollowsGrammar` states this case (`Spoiled`).
* A literal of more than 308 digits is infinite, which `caveat_dsl.rs:657-661`
  says and asserts cannot happen. It orders rightly (`NumbersKeepTheirOrder`).
* No argument has a unit, so a literal with one is comparable to none:
  `docs/V0_1_SPEC.md:114` has comparisons of two numbers with units, which
  nothing can express. `OnlyLikeFactsAllow` states that such a caveat never holds.
* Getters and other methods that `index.ts` leaves unmapped (211, 222) throw plain
  errors when their handle is gone; `errors.ts:1-8` says every public method throws
  the package's classes. They are the `raw` methods of Sdk. A list that another key
  signed is a `CapabilityChainError`, a short audit key a `CapabilityAuditError`.
* In the HTTP agent a call's own `origin` stays when its url is no string or does
  not parse, where the comments (`index.ts:32-33`, `223-226`) take it to be absent.
  `AllowlistIsExact` is about urls that are strings, and fetch refuses one that does
  not parse. Redirects lead where servers say; only the method is bounded there.
* In the filesystem agent `source` and `destination` of a move are not made
  canonical (`index.ts:312`), although `201-205` has both inside the sandbox; and a
  path is checked percent-decoded and used as written. `StaysInSandbox` is about
  calls with neither (`Plain`), `FsDemo` and MCAgents have the others too.
* The shell agent checks the first two words, and executes the rest as it is, which
  its documentation says (`index.ts:57-58`). `ExecutedIsListed` says no more.

`CHECK_DEADLOCK FALSE` is set for the guard, the log, the caveats, the bindings and
the agents, which end when all calls settled, all receipts are appended, the bound
is reached, the comparison was asked, no object is left, or the run is over.

**Fairness.** McpGuard has weak fairness of each call that has begun: a promise that
a callback returned settles, by the contract of the callback, and the event loop
then runs what awaits it. FsAgent has it of the steps of the calls together: the
file system answers every operation, and the event loop gets to some answer; which
one is left open, so one call may overtake another for ever. ShoppingAgent has it of
the run: the API answers or fails, and the loop is sequential. HttpAgent has none,
since fetch has no time limit. Nothing makes a call or a run begin, the clock
advance, or the environment act. `EveryCallSettles` and `RunsEnd` rest on this.

## 4. Proofs

TLAPS proves, for every value of the constants that the assumptions admit:

* **NonceStoreProofs**: `TypeOK`, `DisjointWindows` and the refinement of
  ReplayWindow. The inductive invariant adds to the types that a thread past the
  lock is the holder, that what it read is still what the map has, and that the
  map's entry of a nonce is the latest end of all windows granted to it. The last
  is why a clock that went back is harmless: such a caller meets an entry beyond
  its time and is refused, so the windows of a nonce never overlap although they
  are not opened in the order of real time. The steps of the refinement use the
  same invariant: `Insert` grants exactly when the abstract store would.
* **CapabilityProofs**: `TypeOK`, `VerifiedExtendsMinted`, `BuiltVerifies`,
  `SignatureBindsContents`. The inductive invariant says that every signature
  is the root key, the identifier, the binding messages and the caveats in this
  order. What verifies has then two such readings, and the lemmas on chains show
  they agree. `VerifiedExtendsMinted` and `SignatureBindsContents` have the
  hypothesis `DomainSeparation`, that no predicate is a binding message: the run
  CapabilityHokPrefix shows it cannot be dropped. `BuiltVerifies` needs it not, and
  nor does `ReboundCapabilitiesAreLost`: what the run CapabilityRebinding finds holds of
  every capability bound twice.
* **VerifierProofs**: `TypeOK`, `ProofClearsOnce`, `StoreHoldsOnlyProven`,
  `ProofGatesDecision` and `AttenuationNarrows`. The invariant for
  `ProofClearsOnce` says that a cleared proof's entry lies beyond the time in its
  challenge; a call that could clear it again has this very time in its context,
  so the entry has not expired for it. The theorem holds for any number of
  verifiers, stores and lifetimes. `AttenuationNarrows` has the hypothesis that
  capabilities carry sequences of predicates. `RevokedIsRefused` rests on the
  search of a list in its published order being exact.

  `AnswersGrantAsReplayWindow` puts the abstract store inside the pipeline. A history
  variable, `windows`, has the windows that calls which passed the replay leg opened,
  less those of entries that were cleared. The step of a call passes that leg exactly
  when `ReplayWindow!Fresh` holds of its request, and opens that request's window. The
  invariant (`EntriesAreEnds`) is that an entry of `seen` is the latest end of the
  windows of its proof, as in NonceStoreProofs. NonceStore is shown to implement
  ReplayWindow, so the one step in which Verifier uses `seen` may be read as the
  steps of threads with a mutex: what is proved of the pipeline needs no more of its
  store than ReplayWindow gives. The disjointness of acceptances that it has from
  there holds of every proof, those of a server's own challenges too, and of all
  verifiers that share the store, whatever their lifetimes and clocks.
* **RevocationProofs**: `TypeOK`, `InstalledIsPublished`, `PublishedListsAreExact` and
  `ListIsNeverLost`. That a snapshot lists a finite set once and in order is proved by
  counting: each identifier's rank, the number of those below it, is a bijection
  onto the places of the list.
* **McpGuardProofs**: `TypeOK`, `ToolRunsBehindGate`, `OneRunPerProof`,
  `DecisionsAreCurrent` and the refinement of GatedTool. The invariant says for each
  program counter what has been decided, that the store remembers what it recorded
  for at least as long as it was to, and that two records of one proof cover times
  that do not overlap: a proof is recorded again only when the expiry in the store,
  the latest of its records, is not after the time of the call. `OneRunPerProof`
  needs no hypothesis on the store: what a verifier without a store, or one whose
  store was exchanged, does not remember is not held against a second run.
  `OwnTimesRunOnce` says what that comes to when every context carries its time.
* **AuditLogProofs**: `TypeOK`, `ReadsInAppendOrder`, `LossHasCause` and
  `AckedLinesAreFinal`. The invariant is about newlines: a handle that owes one owes
  it to the last receipt it wrote, and after an acknowledged receipt one comes before
  anything else of its handle. So what is appended later is on a later line, and
  two acknowledged receipts on one line are of different handles.
* **BindingsProofs**: for Handles, `TypeOK`, `NarrowingIsKept`, `NothingUnrestricted` and
  `ConfigIsAsTold`. Their conjunction is inductive; a lemma per way of leaving a
  wrapper (emptied, refused, moved to a new one) says it is sound, and the step
  lemma reduces every call to these. For Sdk, `SdkTypeOK`, `AcceptedIsAsSigned` and
  `TimesAreKept`: a receipt in hand has a receipt of the core behind it, and the
  challenge that was signed is the written context with some time.
  `ErrorsNameTheirCause` rests on a lemma (`RefusalsAreTold`) on every method and every
  way it refuses: the words of its message determine the class that is asked for.
* **CapabilityProofs**, on caveats: `TimesCompareAsInstants`, `NumbersKeepTheirOrder`
  and `OnlyLikeFactsAllow`. One state asks one comparison, so the invariant only
  types it; the work is in the lemmas.
  - Times: the closed formula for the days since 1970 agrees with the calendar that
    adds up years and months (a least counterexample among the years in range would
    have one before it, and the days of a month are counted one after the other); the
    pair of seconds and nanos orders as the instant does, before 1970 too.
  - Numbers: the powers of two multiply and divide each other; a magnitude has a
    last place; with the same place rounding keeps the order, and from one place to
    the next a rounded number fits into the digits of the lower place and fills those
    of the higher. Integers of no more digits than the format has are exact, so the
    neighbours of an integer cap stay on their side of it. The theorem is about any
    number of digits, 53 among them, and any exponent.
  - Facts: what `resolve_ident` gives is a fact of the context with its type, and an
    argument has no unit.
  - Predicates (`ParserMeetsGrammar`, and from it `FollowsGrammar`): the recursion of
    the parser ends, as every call is at a later position, or at the same position
    further down the grammar, so that one function has the results of all calls
    (`ParserExists`, `ParserIs`); likewise for the meaning of shorter and shorter spans.
    *Soundness* (`ParserSound`): what a call returns is the meaning of the tokens it
    read, which have balanced parentheses and no spoiled timestamp. The parser groups
    to the left and the meaning splits at the first operator; that `Evaluated` is
    associative makes them agree. *Completeness* (`ParserComplete`, `MeaningIsRead`):
    a span with a meaning is read to its end, if what follows it is no operator that
    would have continued it. Both are by a least counterexample.
* **AgentsProofs**, which has Demos too: for each agent its types and what its run checks of it. The
  invariants `HttpInv`, `ShellInv`, `FsInv` and `ShopInv` share `GateOK` (the gate's
  types, and that only allowed calls run) and the idea that an allowed call is one
  that the capability in force admits: it is checked once and acted on later, and no
  step in between changes its arguments or the capability.
  - `AllowlistIsExact`: the list holds exact origins, and a first request goes where
    the call's url says, which is what was normalized.
  - `ExecutedIsListed`: what is executed is the vector of an allowed call.
  - `ShopSeesItsScope`, `EveryUseIsAnswered`, `ReportsAreTrue`: the invariant follows
    the loop: the ids of the uses not dealt with are unused, the results are those of
    the uses dealt with, in order, and an attempted wire is either denied or the use
    that the loop is at.
  - `SerialUnlessCrossed`: any number of calls may be at work on different files. As
    long as none clash, each location is the concern of at most one of them; where it
    is nobody's, `files` and `serial` agree, and where it is a call's, `serial` is what
    the rest of that call's steps makes of it (`Finished`). A step of one call leaves
    the others' files and jobs, and where the directories are, as they were
    (`OthersStay`), so what is left of the others is unchanged (`FinishedIsLocal`), and
    a call that begins finds the same file in both (`DirsAgree`, `WriteIsLocal`).
  - `StaysInSandbox`, an action property: the file that a call has opened and the
    places that a walk is going to are inside the sandbox. It is about calls that are
    `Plain`, those of which the check and the file system have the same reading.
    `OrdinaryCallsArePlain` says which these are in terms of what a caller writes:
    no percent sign that decoding changes, and no `..` in the paths of a move; a `..`
    elsewhere does no harm. It rests on `Resolve`, a fold over a path, being what its
    equations say (`WalkEquations`). `ResolveIsCanonical`: what it yields is a fixed
    point of it, and the fixed points are the paths without `..`.
  - `DemosGoAsExpected`: a call is denied exactly when the capability in force does not
    admit it, and what the capabilities of the demonstrations admit among their calls
    is computed. The calls are concrete, but all else is not: any other calls may be
    made around them, at the same time and before, under any bounds. One agent runs
    in each behaviour (`OneAgentSpec`).

The attempts to prove these found two places where a model said less than it
meant. A rejection reason of the HTTP issuer was a CASE with guards that overlap,
so which reason a url gets was open: the order of the checks is now that of the code. And
`create_directory` and a write make directories above a sandbox that does not exist
yet, which the first form of `StaysInSandbox` forbade and no instance had: the
property now allows directories made on the way to a place that the capability
grants, and the run has such a sandbox.

The proofs rest on the named assumptions of the modules, all of which TLC evaluates
in the runs: times are natural numbers, lifetimes are times, the null values are
not values, binding messages of different keys differ, the sizes of the calendar
exceed 1; Grain is a power of two and whole numbers of Precision digits are finite
(`GrainAssumption`); contexts, timestamps and literals are what the parser and JSON
yield (`TextsAssumption`); the origin of a url is itself a text (`UrlsAssumption`);
menus of calls and tool uses have the fields of calls (`HttpMenuAssumption`,
`WordsAssumption`, `UsesAssumption`); places are paths of names and include every
sandbox (`PlacesAssumption`); a run has as many ids as its bounds allow uses, and
enough for the script (`CallsAssumption`); the null call is no call
(`NoCallAssumption`). Of the demonstrations' urls, words and names they say what the
external URL parser and the decoding make of them (`HttpDemoAssumption`,
`ShellDemoAssumption`, `FsDemoAssumption`).

Facts about recursive definitions take the same form throughout. The recursion is a
function, not an operator. That the parser's and the fold over a path satisfy their
equations is shown by stages: for each bound some function satisfies the equations below
that bound, and the last bound covers a whole predicate or path. A fact about
all arguments then follows from a least counterexample, a least element of a set of
numbers, which well-founded induction gives for sets.

**Only model-checked:** `EveryCallSettles` and `RunsEnd`, liveness under fairness, which
is beyond the prover.

## 5. Abstractions

* HMAC-SHA256 and SHA-256 are collision free and cannot be computed without the
  key; ed25519 proofs are a key and what it signed, and signing is deterministic,
  as the algorithm prescribes. A holder who signs one challenge twice with
  different randomness makes two proofs, and the store takes them for two.
* Identifiers, predicates, requests and receipts are model values; the caveat
  language in Verifier is an operator that yields true, false or error.
* Time is in whole milliseconds; `MaxTime` stands for `u64::MAX`.
* The scanning of digits, quotes, separators and escapes in the caveat language is
  left out: tokens and fields are what it yields. Numbers have no least magnitude.
* A parsed predicate is its value in one context. The code looks at an expression only
  in `eval_expr`, which looks at a part only for its value, after the whole text parsed.
* Arguments that pass through a JavaScript object have lost digits and points
  before the verifier sees them, as its documentation says; `IntegerCapsAreExact`
  is about the text the verifier gets.
* The agents' URL parser, fetch, file system and model are external: given by a
  table, a choice of hops, a map of places and a choice of answers. There are no
  links in the file system. The expiry in the agents' caveats, 2099, never comes, and
  amounts are in cents.
* A poisoned mutex is left out: nothing in `try_record` panics while it is held.

Not modelled: `Auditor::verify` beyond accepting what was signed (an equality of
MACs), the canonical hash of the arguments, the bindings' wrappers of auditors,
stores and lists (they only delegate), hexadecimal and error code, the command
line, the adapter to a live MCP server with its demonstration (it forwards calls),
the scripts that regenerate evidence files (they print), prompts and events of the
shopping agent.

## 6. Plan

The order was: nonce store and its refinement; the chain; the pipeline that
composes both with revocation; revocation in transit; the guard and the gate it
implements; the log; the caveat language; the bindings and the package; the agents
on the gate; proofs of all safety properties, the parser's among them; the store
inside the pipeline. What could still be added:

1. **CliIssue**: `issue_from_caveats` and `parse_ttl` with 64-bit arithmetic.
2. The canonical hash of the arguments as an injection on the values that JSON
   keeps apart.
