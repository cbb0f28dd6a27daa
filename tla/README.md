# TLA+ models of mbed-edge-examples

This directory holds TLA+ models of the example programs in `src/`, the TLC
configurations that check them, and `PROJECT.json`. That file lists the
components, the runs, the mutants, the source lines each definition models,
the findings and the hazards.

## 1. The system

The repository has five programs that do not talk to each other:

| Program | Talks to | What it does |
|---|---|---|
| `simple-js-examples/simple-fota-example.js` | Edge Core over JSON-RPC/WebSocket (`/1/pt`) | Protocol translator. It registers, registers a device, updates it and unregisters it, one step per key press. It exposes `write` and `manifest_meta_data`. A valid manifest starts a firmware-update chain. |
| `simple-js-examples/simple-grm-example.js` | Edge Core (`/1/grm`) | Gateway resource manager. It registers, adds resources and writes a value. It exposes `write`. |
| `pt-crypto-api-example.js` | Edge Core (`/1/pt`) | Protocol translator. It makes nine certificate and crypto calls in sequence. It exposes `certificate_renewal_result` and `crypto_get_certificate_result`. |
| `simple-js-examples/simple-mgmt-example.js` | Edge Core (`/1/mgmt`) | A REPL whose commands (`devices`, `readResource`, `writeResource`) each start a call. The REPL does not await the calls. |
| `kaas-example/web-portal/src/App.js` | A REST device server | A React dashboard. It fetches devices on mount, toggles them (PUT) and creates them (POST). |

Edge Core, the REST server and the `json-rpc-ws` library are not in this
repository. The models treat them as the environment. That environment may
answer a request, answer with an error, never answer, or fail on the
network.

### State, operations and interactions

* **An outbound call.** Every Node example uses the same code for it:
  `new Promise`, then `setTimeout(reject('Timeout'), TIMEOUT)`, then
  `client.send(method, params, cb)`. The callback runs `clearTimeout` and
  then `resolve` or `reject`. Per call the state is:
  * the promise,
  * the timer,
  * the request at the peer,
  * whether the callback has run.

  The answer and the timer race. The first one to arrive settles the
  promise. Whatever arrives later does nothing.
* **Inbound handlers.** `client.expose(name, handler)` is called from the
  registration callback. After that, Edge Core may call the handler at any
  time, including while an outbound call is pending. The handler must call
  `response(...)` exactly once.
* **The FOTA chain.** This is a chain of callbacks that runs alongside the
  main flow:
  1. `manifest_meta_data` responds `ok` and sends `download_asset`, with a
     30-minute timer.
  2. The `download_asset` callback calls `unregisterExampleDevice`.
  3. A 5 s "reboot" timer runs.
  4. `updateExampleManifestResources` writes the new version.
* **Process lifecycle.** Any rejection in the main flow goes to its
  `catch`, which calls `edge.disconnect()` and then `process.exit(1)`. A
  SIGINT handler does the same. `quitImmediately` is never set, so the
  handler always waits for the disconnect. At a "Press any key" prompt
  `holdProgress` has put stdin in raw mode, so Ctrl+C is read there as a
  key press and the flow goes on; it raises SIGINT only between prompts.
* **The portal.** Its state is `devices`, `loading`, `error`,
  `showAddDevice` and `newDevice`. Each click handler is a closure over the
  `devices` of the render it was created in. When the response arrives, the
  handler computes the new list from that snapshot.

### What is hard here

* Races between a timer and a late answer, per call, with several calls in
  flight (the REPL).
* Inbound calls interleaved with outbound ones. This includes an inbound
  call that arrives after the registration timed out.
* A chain of callbacks and timers that runs concurrently with the main
  flow.
* Handler paths that throw before responding.
* Process termination without cleanup.
* Stale closure snapshots in the React handlers, with responses arriving
  in any order.

### What makes each part correct

* **Call:** each call settles exactly once, to what actually happened. A
  call that is never answered still settles. A timer never fires after its
  answer was handled.
* **Handlers:** each inbound request gets exactly one reply.
* **FOTA:** firmware is downloaded only for a manifest with both the
  expected vendor ID and the expected class ID.
* **Program:** the main flow makes one call at a time and stops at the
  first failure, and a stopped flow ends the process (the abstract
  `MainFlow`). The process ends only through the cleanup path. Ctrl+C
  between prompts always ends it.
* **Portal:** once every request has been answered, the screen shows the
  server's devices.

## 2. Modules

| Module | Models | Composes |
|---|---|---|
| `EdgeRpcCall` | The call with a timeout, for a set `Calls` of concurrent calls. Actions: `Issue` (the promise executor), `PeerAnswer` and `PeerDrop` (the environment), `SendCallback`, `TimerFires`. | (none) |
| `EdgeRpcCallAbstract` | What a call promises: `Call`, `Answer`, `Resolve`, each exactly once, with weak fairness on `Resolve`. | (none) |
| `MainFlow` | What the key-press main flow of a translator promises: `Connect`, then `NCalls` times `Call` and `Settle`, one at a time; the first failure stops it and `ExitAfterFailure` ends the process; `Exit` ends it at any time. Weak fairness on `Settle` and `ExitAfterFailure`. | (none) |
| `FotaPT` | `simple-fota-example.js` as a whole. | `R == INSTANCE EdgeRpcCall` for its six promise-wrapped calls |
| `GrmPT` | `simple-grm-example.js` as a whole. | `R == INSTANCE EdgeRpcCall` for its three calls |
| `CryptoPT` | `pt-crypto-api-example.js` as a whole. | `R == INSTANCE EdgeRpcCall` for its nine calls |
| `MgmtRepl` | `simple-mgmt-example.js`: the REPL's commands and its shutdown. | `R == INSTANCE EdgeRpcCall` for the commands' calls |
| `PortalApp` | `App.js`, with the REST server as environment. | (none) |
| `MC_*` | Model values and input sets for TLC. | The module above |

Correspondence in `FotaPT`:

* `pc` and `step` are the point where the main `async` function is
  suspended. `KeyConnect` and `KeyNext` are the key presses that end
  `holdProgress`. `KeyNext` also calls the next method.
* `MainResume` is the code after each `await`, including the `catch`.
* `RpcCallback(c)` and `RpcTimeout(c)` are `R!SendCallback` and
  `R!TimerFires`. Each is joined with what the settled promise resumes
  (`Resume`). A JavaScript callback runs to completion together with the
  promise reactions it triggers, so the two form one step.
* `RpcCallback` of the registration also sets `exposed`. It does so even
  after the promise timed out, as the code does (line 133).
* `HandleWrite` and `HandleManifest` are the two handlers. `HandlerThrows`
  is an exception that escapes a handler. It leaves the request unanswered
  and may crash the process.
* The handlers' inputs are records:
  * `WriteReq`: byte length of the value, and whether it has a uri;
  * `ManifestReq`: uri, all fields present, vendor match, class match.
* A write's byte length comes from `WritableResources`. That is the table
  of writable and executable resources that `_createDeviceParams` declares,
  by type.
* `DownloadCallback`, `DownloadTimerFires` and `RebootTimer` are the
  firmware chain. `fota[m]` records where the chain of manifest `m` is.
* `Sigint` and `DisconnectDone` are the SIGINT handler and the
  `edge.disconnect()` callback. `proc` is "exited" after `process.exit`
  and "crashed" after an uncaught exception. `Sigint` is not enabled in
  `Prompts`, the two `pc` values where `holdProgress` holds stdin in raw
  mode; Ctrl+C there is the key press of `KeyConnect` or `KeyNext`.
* `MF == INSTANCE MainFlow` maps the main flow onto the abstract one:
  `FlowPhase` from `pc`, `FlowDone` as the number of main calls whose
  promise resolved, `alive` as `Running`. The same mapping is used in
  `GrmPT` and `CryptoPT`.

`GrmPT` and `CryptoPT` have the same shape as `FotaPT`'s main flow
(`KeyConnect`, `ConnectCallback`, `KeyNext`, `RpcCallback`, `RpcTimeout`,
`RpcPeer`, `Sigint`, `DisconnectDone`), with `Advance` (the code after a
resolved `await`) and `Fail` (the catch block) named separately. What
differs:

* `GrmPT.HandleWrite` is the `write` handler. A write without a value or a
  uri throws before `response()`, like `FotaPT.HandlerThrows`; any other
  write is answered `'ok'`. Edge Core sends writes only after it accepted
  the registration and `add_resource` (`EdgeSends`).
* `CryptoPT.field` records the fields the main flow reads from two answers:
  `key_data` of `crypto_get_public_key` (line 340) and `signature_data` of
  `crypto_asymmetric_sign` (line 358). `MainResume` lets the answer carry
  the field, lack it, or be `null` (the read throws into the catch block).
  `Consumes` says which later call converts which field.
* When that field is undefined, `KeyNext` takes `EdgeRpcCall!IssueThrows`:
  the executor has armed its timer and then throws in `toString`, so the
  promise is rejected, nothing is sent, and the timer stays armed.
* `HandleRenewalResult` and `HandleCertResult` are the two handlers; both
  always respond `'ok'`.

Correspondence in `MgmtRepl`:

* `CmdConnect`, `CmdCall(c)`, `CmdExit` are the REPL context functions
  `connect`, `devices`/`readResource`/`writeResource` and `exit`; `ReplExit`
  is the REPL's `'exit'` event, which also closes the REPL (`replOpen`).
  None of them awaits what it starts.
* `conn` is the client's connection. A call typed while it is not
  `"connected"` either throws in its executor (`IssueThrows`) or is sent
  nowhere (`unsent`: the peer can only lose it). `json-rpc-ws` is not in
  the repository, so both are allowed.
* `ResolvePrompt` is `resolve()` of `runPrompt`'s promise together with
  the main function's resumption: only the first call settles the promise
  and starts `edge.disconnect()`.
* `DisconnectDone` is the disconnect callback followed by
  `process.exit(1)`; a rejection is caught and ignored.

Correspondence in `PortalApp`:

* `devices`, `loading`, `error` and `showAddDevice` are the React states.
* `nameFilled` stands for `newDevice.name.trim() !== ''`, `newType` for
  `newDevice.deviceType`, which `SelectType` sets and a successful create
  resets to `"LightBulb"`.
* A device has one of the four `DeviceTypes`; `ClickToggle` exists only
  for the `Switchable` ones, the types `renderDeviceControl` gives a
  button. A POST creates a device of the request's type.
* `reqs` holds the outstanding axios requests. Each one carries the
  closure's `snap` of `devices`.
* `ClickToggle`, `ClickCreate`, `SetShowAddDevice`, `EditName` and
  `Dismiss` are the user's clicks.
* `FetchDone`, `UpdateDone` and `CreateDone` are the code after each
  `await axios...`.
* `ServerHandles` is the environment. It applies a request and answers
  `{success:true}`, refuses it with `{success:false}`, or fails on the
  network (applied or not).

## 3. Runs

| Run | Config | Expect | Checks |
|---|---|---|---|
| `rpc_call` | `MC_EdgeRpcCall.cfg` | pass | `TypeOK`; `OutcomeFaithful` (the settled value is the delivered answer, or a timeout only when the call's own timer fired); `NoTimerOutlivesCall` (a settled call has no armed timer); `AbsSpec`: the mechanism refines `EdgeRpcCallAbstract`, so each call settles exactly once, to the answer or a timeout, even if the peer never answers (liveness); an answer after the timeout cannot settle it again |
| `fota` | `MC_FotaPT.cfg` | pass | `TypeOK`; `SigintEndsProcess` (liveness); `MainFlowRefined`: the main flow implements `MainFlow` (calls in order, one at a time, each settling; the first failure ends the process), with the firmware chain, both handlers and late answers running beside it |
| `fota_write_unanswered` | `MC_FotaPT_write.cfg` | violation | `EveryHandledAnswered`: a write of the 4-byte int resource `/10255/0/0` makes `readDoubleBE` throw before `response()` |
| `fota_vendor_class` | `MC_FotaPT_ids.cfg` | violation | `DownloadOnlyForMatchingIds`: the `&&` at line 432 accepts a manifest whose vendor ID is foreign |
| `fota_timer_crash` | `MC_FotaPT_crash.cfg` | violation | `EndsOnlyAfterDisconnect`: `download_asset` is never answered, and its timer's undefined `reject` crashes the process without a disconnect |
| `grm_write_unanswered` | `MC_GrmPT_write.cfg` | violation | `EveryHandledAnswered`: a write without a value makes `Buffer.from` throw (line 193) before `response()`, so Edge Core's call is never answered (spec 4.1, expose) |
| `grm` | `MC_GrmPT.cfg` | pass | `TypeOK`; `WellFormedWriteAnswered` (liveness: every write with a value and a uri is answered unless the process ends); `MainFlowRefined` (the main flow implements `MainFlow`; its liveness part says a failure always reaches `process.exit`) |
| `crypto` | `MC_CryptoPT.cfg` | pass | `TypeOK`; `InboundEventuallyAnswered` (liveness: both handlers answer every request unless the process ends); `MainFlowRefined` (the main flow implements `MainFlow`, including a call that fails in its executor and a resolved call whose `null` answer makes the next line throw; every awaited call settles) |
| `crypto_timer_leak` | `MC_CryptoPT_timer.cfg` | violation | `NoTimerOutlivesCall`: a sign answer without `signature_data` makes the verify executor throw after `setTimeout` (line 254); the promise is rejected with its timer still armed. ECDH does the same with `key_data` (line 275). |
| `mgmt` | `MC_MgmtRepl.cfg` | pass | `TypeOK`; `ExitEndsProcess` (liveness: leaving the REPL ends the process, with commands pending or typed afterwards); `CommandSettles` (liveness: every command's call settles while the process runs, including one typed before `connect()` completed, whose request goes nowhere) |
| `portal_sequential` | `MC_PortalApp.cfg` | pass | `TypeOK`; `ShowsServerState`, with a user who waits for each answer (`MaxInflight = 1`) |
| `portal_concurrent` | `MC_PortalApp_concurrent.cfg` | violation | `ShowsServerState` with two outstanding requests: with one switchable device at load, TLC's shortest case is a toggle and a create outstanding together, where the later response is applied to the stale list of the clicked render and undoes the earlier one on screen (stale closures at `App.js:47` and `61`) |

Each property of a passing run has a mutant in `PROJECT.json`. Each mutant
changes one mapped definition the way a plausible bug would, and TLC
detects the change:

* inverted `if (!error)`;
* no `clearTimeout`;
* no `setTimeout`;
* a call that is not awaited;
* a SIGINT handler whose disconnect rejection skips `process.exit`;
* a toggle response that keeps the old device;
* a registration callback that does not expose the handlers;
* a catch block without `edge.disconnect()`;
* an off-by-one at the last step of the main flow.

### Bounds and why they suffice

* **`EdgeRpcCall`: two calls.** Each call goes through every ordering of
  answer, loss, callback and timer. Two calls are enough to show that they
  do not share a timer or a result.
* **`FotaPT`: four inbound requests in the passing run.** They are a float
  write, an int write, a valid manifest and a manifest with a missing
  field. Every handler branch is reached, including the throwing one and
  the firmware chain. Each of the four main calls can be answered, refused
  or lost, so every catch path is reached.
* **Two firmware chains at once.** With two valid manifests (and the int
  write and the incomplete manifest) the `fota` properties also hold, over
  1,565,156 distinct states. That instance takes about 14 minutes, too
  long for the routine runs, so `MC_FotaPT.cfg` keeps one valid manifest.
* **`FotaPT` violation runs: one request each.** Each one isolates a
  single cause.
* **`GrmPT`: two writes**, one well formed and one without a value, so
  both handler paths run; each of the three calls can be answered,
  refused or lost.
* **`CryptoPT`: one request per handler.** All nine calls, and each of
  the two answers the later calls depend on, can be full, lack the field,
  or be `null`; the verify and ECDH throws are both reachable.
* **`MgmtRepl`: two commands.** They can be typed before, during and
  after `connect()`, and after `exit()`; `exit()` and the REPL's exit
  event can each happen any number of times.
* **`PortalApp`: two devices exist, one can be created, four requests in
  total.** That is enough for the fetch plus a toggle and a create
  outstanding together, the smallest case of the lost update here, since
  only one device has a button at load. The initial
  devices are a light bulb and a temperature sensor, so a device without
  a button is on screen; the created one may be of any of the four types.
* **`MaxInflight`** is the number of requests the user leaves
  outstanding. It is 1 for a careful user and 2 for one who clicks again
  before the answer arrives.

### Fairness

Weak fairness is assumed only for what Node's event loop and the transport
do:

* due timers fire;
* received callbacks and inbound messages are handled;
* the connect and disconnect callbacks are called.

`MainFlow` asks for weak fairness on `Settle` and `ExitAfterFailure`
only; the refining modules get them from the timers (`RpcTimeout`) and
the disconnect callback (`DisconnectDone`).

Key presses, SIGINT, Edge Core and the REST server are not fair. A user may
stop pressing keys, and a peer may never answer. `EdgeRpcCall` and
`PortalApp` may legitimately stop:

* In `EdgeRpcCall`, the REPL waits for its next command, so its configs say
  `CHECK_DEADLOCK FALSE`.
* `PortalApp` always has a click available.
* In `MgmtRepl` a process with nothing left to run waits, so its config
  also says `CHECK_DEADLOCK FALSE`; `ExitEndsProcess` checks that it ends.
* In `FotaPT`, `GrmPT` and `CryptoPT`, deadlock is checked. The only terminal states are the ended
  process (`Terminated`).

## 4. Not modelled (yet), and why

* **Payload construction and encoding.** This covers base64, `writeDoubleBE`
  and object layouts. Only the byte width of each writable resource type is
  kept, because that decides whether `readDoubleBE` throws: 8 bytes for
  a float, 4 for an int, 16 for the vendor and class ID strings
  (`/10255/0/3`, `/10255/0/4`) and 1 for the other strings, whose initial
  value is `"0"` (`ValueBytes`).
* **The portal's rendering.** Icons, labels, the sensors' readings and
  `updated_at` are display only.
* **Edge Core's device registry.** How the FOTA chain's
  `device_unregister`/`write` of `DEVICE_ID` interacts with the main flow's
  calls on the same device depends on how Edge Core answers a request for
  a device that is not registered. Neither the repository nor the spec
  says, so Edge Core's answers stay unconstrained. `MainFlowRefined`
  checks the part that is in the code: the chain's calls never disturb
  the main flow's own sequence.
* **`crypto_generate_random`'s size.** The call sends `{size: 0}` whatever
  `amount` it is given (line 209). This is request data that no control
  path depends on, so it is left out.
* **The GRM value's encoding.** `_createResourceParams` writes the float as
  4 bytes (`writeFloatBE`) where the spec's convention is an 8-byte double;
  it is payload data and is not modelled.
* **A second `connect()` in the REPL.** `CmdConnect` is enabled on an
  open client, as the code allows; spec section 4 allows one connection
  per client, but what `json-rpc-ws` does with a second connect is not in
  this repository, so no property says what follows it.
* **The management example's outer catch block** (lines 229-238). It
  cannot be reached: `runPrompt` never rejects and the constructor does
  not throw.
* **What `json-rpc-ws` does with an exception thrown by a handler.** It is
  taken as either an uncaught crash or an unanswered request, and both are
  allowed.

## 5. Plan

The order follows importance. Items 1–5, 7, 8, 11 and 12 are done; 6 is
dropped and 10 remains open.

1. **`EdgeRpcCall` and `EdgeRpcCallAbstract`**, with the refinement. This
   is the core mechanism of every Node example.
2. **`FotaPT`**, which composes `EdgeRpcCall`. It is the program with
   concurrency: the main flow, inbound handlers, the firmware chain and
   SIGINT.
3. **`PortalApp`**, the one program with a real lost-update race.
4. The FOTA findings and the portal finding as violation runs. The runs are
   at the checker's limit of twelve, so a new question replaces or joins
   an existing run.
5. Dropped: a property that a registration answer arriving after the
   timeout must not expose the handlers (`simple-fota-example.js:133`).
   Spec 4.1 defines "discarded" as not settling the call again and not
   leaking its timer, and asks for the handlers because the peer may call
   once it accepted the registration, which a late success is. Exposing
   them is what the code should do, and what `WellFormedWriteAnswered`
   and `InboundEventuallyAnswered` rely on.
6. Dropped: an Edge Core registry assumption for the FOTA chain against
   the main flow on `DEVICE_ID`. Nothing in the repository grounds how
   Edge Core answers for an unregistered device (see section 4).
7. Done: **`MgmtRepl`**. Its `connect`/`exit` commands and shutdown run over
   `EdgeRpcCall` with calls that are not awaited.
8. Done: **`GrmPT` and `CryptoPT`.** Same shape as `FotaPT`. They compose
   `EdgeRpcCall`, and the crypto example's later steps depend on earlier
   responses.
9. Dropped: **`Int32BE`.** The big-endian conversions are Node's
   `Buffer` methods, not code of this repository; what the repository
   gets wrong about them (a 4-byte int decoded with `readDoubleBE`) is
   already the `fota_write_unanswered` finding.
10. **Portal double-submit of Create (`App.js:206`)** and the silent
    `{success:false}` path, if a requirement for them can be grounded.
11. Done: **`MainFlow`**, the abstract key-press flow, refined by `FotaPT`,
    `GrmPT` and `CryptoPT`; the portal's device types and type select; the
    raw-mode prompts, where Ctrl+C is a key press.
12. Done: the GRM unanswered write as a violation run
    (`grm_write_unanswered`); `CommandSettles` for the REPL's calls that are not awaited;
    the two-chain FOTA instance checked once (section 3).
