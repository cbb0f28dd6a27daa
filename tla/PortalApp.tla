------------------------------ MODULE PortalApp ------------------------------
(***************************************************************************)
(* kaas-example/web-portal/src/App.js: a React dashboard over a REST      *)
(* device store.  On mount it fetches the devices (GET /devices); then the *)
(* user toggles devices (PUT /devices/{id}/state) and creates devices     *)
(* (POST /devices).  Each click handler is a closure of the render it was *)
(* created in: when its response arrives it computes the new list from    *)
(* the `devices` of that render (snap below), not from the current one.   *)
(*                                                                         *)
(* The REST server is the environment: it applies a request, refuses it   *)
(* ({success: false}), or the request fails on the network (applied or    *)
(* not).  Responses may arrive in any order.  A device has one of the    *)
(* four types of the add-device select; only a LightBulb or a Switch is   *)
(* rendered with a button, a sensor's readings are display only.          *)
(***************************************************************************)
EXTENDS Naturals, FiniteSets

CONSTANTS
    DevIds,         \* ids the server may give devices
    InitialStore,   \* the server's devices when the page loads
    MaxRequests,    \* bound on the requests the page sends in a behaviour
    MaxInflight     \* bound on the requests the user leaves outstanding

\* The options of the Device Type select, and the types renderDeviceControl
\* gives an ON/OFF button.
DeviceTypes == {"LightBulb", "Switch", "TemperatureSensor", "HumiditySensor"}
Switchable == {"LightBulb", "Switch"}

Device == [id : DevIds, on : BOOLEAN, type : DeviceTypes]

VARIABLES
    devices,        \* the `devices` state: the list on screen
    loading,        \* the `loading` state: only a spinner is rendered
    error,          \* the `error` state: the message shown, or "none"
    showAddDevice,  \* the add-device modal is open
    nameFilled,     \* newDevice.name is not blank (the Create button is enabled)
    newType,        \* newDevice.deviceType, the select's value
    reqs,           \* the requests in flight, with the closure's snapshot
    nextRid,        \* requests sent so far
    store,          \* the server's devices
    failed          \* some response was an error or {success: false}

vars == <<devices, loading, error, showAddDevice, nameFilled, newType, reqs, nextRid, store, failed>>

Ids(S) == {d.id : d \in S}

Request == [rid : 1..MaxRequests, op : {"get", "put", "post"}, id : DevIds \cup {"none"},
            on : BOOLEAN, type : DeviceTypes, snap : SUBSET Device,
            st : {"sent", "ok", "refused", "error"}, data : SUBSET Device]

TypeOK ==
    /\ devices \subseteq Device
    /\ loading \in BOOLEAN /\ showAddDevice \in BOOLEAN /\ nameFilled \in BOOLEAN
    /\ newType \in DeviceTypes
    /\ error \in {"none", "fetch", "update", "create"}
    /\ reqs \subseteq Request
    /\ nextRid \in 0..MaxRequests
    /\ store \subseteq Device
    /\ failed \in BOOLEAN

\* A request as the page sends it.
NewReq(op, id, on) ==
    [rid |-> nextRid + 1, op |-> op, id |-> id, on |-> on, type |-> newType, snap |-> devices,
     st |-> "sent", data |-> {}]

\* The first render: loading is true and useEffect calls fetchDevices.
Init ==
    /\ devices = {} /\ loading = TRUE /\ error = "none"
    /\ showAddDevice = FALSE /\ nameFilled = FALSE /\ newType = "LightBulb"
    /\ reqs = {[rid |-> 1, op |-> "get", id |-> "none", on |-> FALSE,
               type |-> "LightBulb", snap |-> {},
               st |-> "sent", data |-> {}]}
    /\ nextRid = 1
    /\ store = InitialStore
    /\ failed = FALSE

\* While loading only the spinner is rendered: there is nothing to click.
Interactive == ~loading

Send(r) ==
    /\ nextRid < MaxRequests /\ Cardinality(reqs) < MaxInflight
    /\ reqs' = reqs \cup {r}
    /\ nextRid' = nextRid + 1

-----------------------------------------------------------------------------
(* The user *)

\* onClick of a device's button: updateDeviceState(device.id, {on: !isOn}).
ClickToggle(d) ==
    /\ Interactive /\ d \in devices /\ d.type \in Switchable
    /\ Send(NewReq("put", d.id, ~d.on))
    /\ UNCHANGED <<devices, loading, error, showAddDevice, nameFilled, newType, store, failed>>

\* "Add Device" opens the modal, "Cancel" closes it.
SetShowAddDevice(b) ==
    /\ Interactive /\ showAddDevice # b
    /\ showAddDevice' = b
    /\ UNCHANGED <<devices, loading, error, nameFilled, newType, reqs, nextRid, store, failed>>

\* onChange of the name input.
EditName ==
    /\ Interactive /\ showAddDevice
    /\ nameFilled' = ~nameFilled
    /\ UNCHANGED <<devices, loading, error, showAddDevice, newType, reqs, nextRid, store, failed>>

\* onChange of the Device Type select.
SelectType(t) ==
    /\ Interactive /\ showAddDevice /\ newType # t
    /\ newType' = t
    /\ UNCHANGED <<devices, loading, error, showAddDevice, nameFilled, reqs, nextRid, store, failed>>

\* "Create", enabled when the name is not blank: createDevice.
ClickCreate ==
    /\ Interactive /\ showAddDevice /\ nameFilled
    /\ Send(NewReq("post", "none", FALSE))
    /\ UNCHANGED <<devices, loading, error, showAddDevice, nameFilled, newType, store, failed>>

\* "Dismiss" clears the error message.
Dismiss ==
    /\ Interactive /\ error # "none"
    /\ error' = "none"
    /\ UNCHANGED <<devices, loading, showAddDevice, nameFilled, newType, reqs, nextRid, store, failed>>

-----------------------------------------------------------------------------
(* The REST server (not part of this repository) *)

\* The state change request r asks for, and the data the server returns.
Applied(r) ==
    CASE r.op = "get" -> <<store, store>>
      [] r.op = "put" ->
            LET new == [id |-> r.id, on |-> r.on,
                        type |-> (CHOOSE d \in store : d.id = r.id).type]
            IN  <<{IF d.id = r.id THEN new ELSE d : d \in store}, {new}>>
      [] r.op = "post" ->
            LET new == [id |-> CHOOSE x \in DevIds \ Ids(store) : TRUE, on |-> FALSE,
                        type |-> r.type]
            IN  <<store \cup {new}, {new}>>

\* A POST needs a free id, a PUT an existing device.
Applicable(r) ==
    /\ r.op = "post" => DevIds \ Ids(store) # {}
    /\ r.op = "put" => r.id \in Ids(store)

\* The server handles request r: it applies it and answers
\* {success: true, data}, refuses it with {success: false}, or the request
\* fails on the network, before or after the server applied it.
ServerHandles(r) ==
    /\ r \in reqs /\ r.st = "sent"
    /\ \/ /\ Applicable(r)
          /\ store' = Applied(r)[1]
          /\ reqs' = (reqs \ {r}) \cup {[r EXCEPT !.st = "ok", !.data = Applied(r)[2]]}
       \/ /\ store' = store
          /\ reqs' = (reqs \ {r}) \cup {[r EXCEPT !.st = "refused"]}
       \/ /\ store' \in {store} \cup (IF Applicable(r) THEN {Applied(r)[1]} ELSE {})
          /\ reqs' = (reqs \ {r}) \cup {[r EXCEPT !.st = "error"]}
    /\ UNCHANGED <<devices, loading, error, showAddDevice, nameFilled, newType, nextRid, failed>>

-----------------------------------------------------------------------------
(* The page handles a response *)

\* Every response ends the awaiting handler; an error or a refusal leaves
\* the screen possibly behind the server.
Answered(r) ==
    /\ r \in reqs /\ r.st # "sent"
    /\ reqs' = reqs \ {r}
    /\ failed' = (failed \/ r.st # "ok")
    /\ UNCHANGED <<nextRid, store>>

\* fetchDevices: setDevices(data) on success, setError on an exception,
\* and setLoading(false) in finally.
FetchDone(r) ==
    /\ Answered(r) /\ r.op = "get"
    /\ devices' = IF r.st = "ok" THEN r.data ELSE devices
    /\ error' = IF r.st = "error" THEN "fetch" ELSE error
    /\ loading' = FALSE
    /\ UNCHANGED <<showAddDevice, nameFilled, newType>>

\* Mutant: the success branch keeps the old device instead of
\* response.data.data.
UpdateDoneKeepsOld(r) ==
    /\ Answered(r) /\ r.op = "put"
    /\ devices' = IF r.st = "ok" THEN r.snap ELSE devices
    /\ error' = IF r.st = "error" THEN "update" ELSE error
    /\ UNCHANGED <<loading, showAddDevice, nameFilled, newType>>

\* updateDeviceState: setDevices(devices.map(device => device.id ===
\* deviceId ? response.data.data : device)), with the devices of the render
\* whose button was clicked.
UpdateDone(r) ==
    /\ Answered(r) /\ r.op = "put"
    /\ devices' = IF r.st = "ok"
                  THEN {IF d.id = r.id THEN CHOOSE n \in r.data : TRUE ELSE d : d \in r.snap}
                  ELSE devices
    /\ error' = IF r.st = "error" THEN "update" ELSE error
    /\ UNCHANGED <<loading, showAddDevice, nameFilled, newType>>

\* Mutant: prepends response.data, the {success, data} wrapper, instead
\* of response.data.data.
CreateDoneWrapper(r) ==
    /\ Answered(r) /\ r.op = "post"
    /\ IF r.st = "ok"
       THEN /\ devices' = {[success |-> TRUE, data |-> r.data]} \cup r.snap
            /\ nameFilled' = FALSE /\ newType' = "LightBulb"
            /\ showAddDevice' = FALSE
       ELSE UNCHANGED <<devices, nameFilled, newType, showAddDevice>>
    /\ error' = IF r.st = "error" THEN "create" ELSE error
    /\ UNCHANGED loading

\* createDevice: setDevices([response.data.data, ...devices]), reset
\* newDevice and close the modal, with the devices of the render whose
\* Create button was clicked.
CreateDone(r) ==
    /\ Answered(r) /\ r.op = "post"
    /\ IF r.st = "ok"
       THEN /\ devices' = r.data \cup r.snap
            /\ nameFilled' = FALSE /\ newType' = "LightBulb"
            /\ showAddDevice' = FALSE
       ELSE UNCHANGED <<devices, nameFilled, newType, showAddDevice>>
    /\ error' = IF r.st = "error" THEN "create" ELSE error
    /\ UNCHANGED loading

Next ==
    \/ \E d \in devices : ClickToggle(d)
    \/ \E b \in BOOLEAN : SetShowAddDevice(b)
    \/ EditName \/ ClickCreate \/ Dismiss
    \/ \E t \in DeviceTypes : SelectType(t)
    \/ \E r \in reqs : ServerHandles(r) \/ FetchDone(r) \/ UpdateDone(r) \/ CreateDone(r)

Spec == Init /\ [][Next]_vars

-----------------------------------------------------------------------------
(* Properties *)

\* Once every request the page sent has been answered with success, the
\* page shows exactly the server's devices, in their server state: no
\* toggle or creation the server applied is missing from the screen.
ShowsServerState ==
    reqs = {} /\ ~failed => devices = store

=============================================================================
