------------------------------ MODULE ToolPlans ------------------------------
(***************************************************************************)
(* The tools of the gateway as data: what the registry says of each        *)
(* (src/tools/definitions), the requests of IotApiService, and for each    *)
(* handler of ToolExecutorService the plan of what it awaits.              *)
(*                                                                         *)
(* A plan is a sequence of stages, a stage the set of steps awaited        *)
(* together (Promise.all).  A handler depends on its input only in the     *)
(* parameters it was given and in whether the device it has read belongs   *)
(* to a location and a group; these are the members of "given".  Labels,   *)
(* pages and the shape of an answer are left out.                          *)
(***************************************************************************)
EXTENDS Naturals, Sequences, FiniteSets

(***************************************************************************)
(* Requests: one HTTP request each, whose failure is logged and thrown on. *)
(***************************************************************************)
Request(verb, path) == [verb |-> verb, path |-> path]
Get(path) == Request("GET", path)

fetchUser == Get(<<"user", "userId">>)
listDevices == Get(<<"device", "userId">>)
listLocations == Get(<<"location", "userId">>)
listGroups == Get(<<"group", "userId">>)
getDevice == Get(<<"device", "userId", "uuid">>)
getLocation == Get(<<"location", "userId", "uuid">>)
getGroup == Get(<<"group", "userId", "uuid">>)
updateDevice == Request("PATCH", <<"device", "userId">>)
deleteDevice == Request("DELETE", <<"device", "userId">>)
getDeviceState == Get(<<"state", "devId", "uuid">>)
getLocationState == Get(<<"state", "location">>)
getDeviceStateByMac == Get(<<"state", "location", "mac">>)
controlDevice(command) == Request("POST", <<"control", "device", command>>)
listSmarts == Get(<<"smart", "userId">>)
getSmart == Get(<<"smart", "userId", "uuid">>)
activateSmart == Request("POST", <<"smart", "active">>)
listSmartCmds == Get(<<"smartcmd", "userId">>)

(* The scheduler's queue in Redis is read and changed the same way.        *)
listJobs == Get(<<"jobs">>)
cancelJob == Request("DELETE", <<"jobs", "jobId">>)

Changes(request) == request.verb # "GET"

(***************************************************************************)
(* Steps.  A step that must succeed ends the handler when it fails; one    *)
(* that may fail is caught (.catch(() => null)).  Storing references never *)
(* fails.  Resolving one takes what Redis knows, or else the inventory,    *)
(* which is then stored.                                                   *)
(***************************************************************************)
Must(request) == [kind |-> "must", request |-> request]
May(request) == [kind |-> "may", request |-> request]
Store(list) == [kind |-> "store", request |-> list]
Resolve(list) == [kind |-> "resolve", request |-> list]

StoreDevices == Store(listDevices)
StoreLocations == Store(listLocations)
StoreGroups == Store(listGroups)
ResolveDevice == Resolve(listDevices)
ResolveLocation == Resolve(listLocations)
ResolveGroup == Resolve(listGroups)

Then(step) == <<{step}>>
ThenIf(given, step) == IF given THEN Then(step) ELSE << >>
Together(steps) == IF steps = {} THEN << >> ELSE <<steps>>
Only(given, step) == IF given THEN {step} ELSE {}

(* The handler throws before it has awaited anything.                      *)
Refused == <<{}>>

(***************************************************************************)
(* Helpers of the handlers.                                                *)
(***************************************************************************)
resolveDeviceUuidFromParams(given) ==
  IF "uuid" \in given THEN << >>
  ELSE IF "deviceRef" \in given THEN Then(ResolveDevice) ELSE Refused
resolveLocationUuidFromParams(given) == ThenIf("locationRef" \in given, ResolveLocation)
resolveGroupUuidFromParams(given) == ThenIf("groupRef" \in given, ResolveGroup)
getLocationRefByUuid == Then(Must(listLocations)) \o Then(StoreLocations)
getGroupRefByUuid == Then(Must(listGroups)) \o Then(StoreGroups)

(* The attributes of a control call, and the order of their commands.      *)
ControlAttrs == {"power", "brightness", "kelvin", "temperature", "mode", "color"}
buildControlCommands(given) ==
  LET push(attr) == IF attr \in given THEN <<attr>> ELSE << >>
  IN  push("power") \o push("mode") \o push("temperature")
        \o push("brightness") \o push("kelvin") \o push("color")

(* The device with its labels and state: all three may be missing.         *)
DeviceDetails(given) ==
  Then(Must(getDevice))
    \o Together(Only("located" \in given, May(getLocation))
                  \cup Only("grouped" \in given, May(getGroup)) \cup {May(getDeviceState)})
    \o getLocationRefByUuid \o getGroupRefByUuid

(* One command after the other, to the device as it was read.              *)
Commands(given) ==
  LET commands == buildControlCommands(given)
  IN  [i \in DOMAIN commands |-> {Must(controlDevice(commands[i]))}]

(***************************************************************************)
(* Handlers.                                                               *)
(***************************************************************************)
executeFetchUser(given) == Then(Must(fetchUser))

executeSearch(given) ==
  Together({Must(listDevices), Must(listLocations), Must(listGroups)})
    \o Then(StoreDevices) \o Then(StoreLocations) \o Then(StoreGroups)

executeFetch(given) ==
  CASE given = {"id", "device"} -> Then(ResolveDevice) \o Then(Must(getDevice))
    [] given = {"id", "location"} -> Then(ResolveLocation) \o Then(Must(getLocation))
    [] given = {"id", "group"} -> Then(ResolveGroup) \o Then(Must(getGroup))
    [] OTHER -> Refused

executeListDevices(given) ==
  Then(Must(listDevices)) \o getLocationRefByUuid \o getGroupRefByUuid
    \o resolveLocationUuidFromParams(given) \o resolveGroupUuidFromParams(given)
    \o Then(StoreDevices)

executeListLocations(given) == getLocationRefByUuid

(* Mutation: the groups are listed, their references are not stored.       *)
ListGroupsOnly(given) ==
  getLocationRefByUuid \o resolveLocationUuidFromParams(given) \o Then(Must(listGroups))

executeListGroups(given) ==
  getLocationRefByUuid \o resolveLocationUuidFromParams(given) \o getGroupRefByUuid

executeGetDevice(given) == Then(ResolveDevice) \o DeviceDetails(given)

executeUpdateDevice(given) ==
  ThenIf("locationRef" \in given, ResolveLocation) \o ThenIf("groupRef" \in given, ResolveGroup)
    \o Then(ResolveDevice) \o Then(Must(updateDevice))

executeDeleteDevice(given) == Then(ResolveDevice) \o Then(Must(deleteDevice))
executeGetDeviceState(given) == Then(ResolveDevice) \o Then(Must(getDeviceState))
executeGetLocationState(given) == Then(ResolveLocation) \o Then(Must(getLocationState))
executeGetDeviceStateByMac(given) == Then(ResolveLocation) \o Then(Must(getDeviceStateByMac))

executeControlDevice(given) ==
  Then(ResolveDevice) \o Then(Must(getDevice)) \o Then(Must(controlDevice("command")))

executeControlDeviceSimple(given) ==
  IF Commands(given) = << >> THEN Refused
  ELSE Then(ResolveDevice) \o Then(Must(getDevice)) \o Commands(given)

(* What is done for each device of the call.                               *)
executeControlDevicesBulk(given) ==
  IF Commands(given) = << >> THEN Refused
  ELSE Then(ResolveDevice) \o Then(Must(getDevice)) \o Commands(given)

executeWidgetGetDevice(given) == resolveDeviceUuidFromParams(given) \o DeviceDetails(given)
executeWidgetControlDevice(given) == resolveDeviceUuidFromParams(given) \o DeviceDetails(given)

executeWidgetListDevices(given) ==
  executeListDevices(given)
    \o Together(Only("locationRef" \in given, May(getLocation))
                  \cup Only("groupRef" \in given, May(getGroup)))

executeListSmarts(given) == Then(Must(listSmarts))
executeGetSmart(given) == Then(Must(getSmart))
executeActivateSmart(given) == Then(Must(activateSmart))
executeListSmartCmds(given) == Then(Must(listSmartCmds))
executeListScheduledJobs(given) == Then(Must(listJobs))
executeCancelScheduledJob(given) == Then(Must(cancelJob))

(***************************************************************************)
(* Definitions: the parameters a call must give, those it may give on      *)
(* which the handler branches, and the hints to the client.                *)
(***************************************************************************)
Tool(required, optional, hints) ==
  [required |-> required, optional |-> optional, hints |-> hints]
ReadOnly(required, optional) == Tool(required, optional, {"readOnly"})

FETCH_USER_TOOL == ReadOnly({}, {})
SEARCH_TOOL == ReadOnly({"query"}, {})
FETCH_TOOL == ReadOnly({"id"}, {"device", "location", "group"})
LIST_DEVICES_TOOL == ReadOnly({}, {"locationRef", "groupRef"})
LIST_LOCATIONS_TOOL == ReadOnly({}, {})
LIST_GROUPS_TOOL == ReadOnly({}, {"locationRef"})
GET_DEVICE_TOOL == ReadOnly({"deviceRef"}, {})

(* Mutation: the hint of a definition copied from a reading tool.          *)
UpdateSaidReadOnly == ReadOnly({"deviceRef"}, {"locationRef", "groupRef"})

UPDATE_DEVICE_TOOL ==
  Tool({"deviceRef"}, {"locationRef", "groupRef"}, {"keeps"})

DELETE_DEVICE_TOOL == Tool({"deviceRef"}, {}, {"destructive"})
GET_DEVICE_STATE_TOOL == ReadOnly({"deviceRef"}, {})
GET_LOCATION_STATE_TOOL == ReadOnly({"locationRef"}, {})
GET_DEVICE_STATE_BY_MAC_TOOL == ReadOnly({"locationRef", "macAddress"}, {})
CONTROL_DEVICE_SIMPLE_TOOL ==
  Tool({"deviceRef"}, ControlAttrs, {"destructive"})
CONTROL_DEVICES_BULK_TOOL ==
  Tool({"deviceRefs"}, ControlAttrs, {"destructive"})
WIDGET_LIST_DEVICES_TOOL == ReadOnly({}, {"locationRef", "groupRef"})
WIDGET_GET_DEVICE_TOOL == ReadOnly({"deviceRef"}, {})
WIDGET_CONTROL_DEVICE_TOOL == ReadOnly({"deviceRef"}, {})
INTERACTIVE_DEVICE_TOOL == ReadOnly({"deviceRef"}, {})
LIST_SMARTS_TOOL == ReadOnly({}, {})
GET_SMART_TOOL == ReadOnly({"uuid"}, {})
ACTIVATE_SMART_TOOL == Tool({"smid", "locId"}, {}, {})
LIST_SMART_CMDS_TOOL == ReadOnly({}, {})
LIST_SCHEDULED_JOBS_TOOL == ReadOnly({}, {})
CANCEL_SCHEDULED_JOB_TOOL == Tool({"jobId"}, {}, {})

(***************************************************************************)
(* The registry: each tool with its definition; control_device has a       *)
(* handler but is not registered.                                          *)
(***************************************************************************)
ALL_TOOL_DEFINITIONS ==
  [fetchUser |-> FETCH_USER_TOOL, search |-> SEARCH_TOOL, fetch |-> FETCH_TOOL,
   list_devices |-> LIST_DEVICES_TOOL, list_locations |-> LIST_LOCATIONS_TOOL,
   list_groups |-> LIST_GROUPS_TOOL, get_device |-> GET_DEVICE_TOOL,
   update_device |-> UPDATE_DEVICE_TOOL, delete_device |-> DELETE_DEVICE_TOOL,
   get_device_state |-> GET_DEVICE_STATE_TOOL,
   get_location_state |-> GET_LOCATION_STATE_TOOL,
   get_device_state_by_mac |-> GET_DEVICE_STATE_BY_MAC_TOOL,
   control_device_simple |-> CONTROL_DEVICE_SIMPLE_TOOL,
   control_devices_bulk |-> CONTROL_DEVICES_BULK_TOOL,
   widget_list_devices |-> WIDGET_LIST_DEVICES_TOOL,
   widget_get_device |-> WIDGET_GET_DEVICE_TOOL,
   widget_control_device |-> WIDGET_CONTROL_DEVICE_TOOL,
   interactive_device |-> INTERACTIVE_DEVICE_TOOL, list_smarts |-> LIST_SMARTS_TOOL,
   get_smart |-> GET_SMART_TOOL, activate_smart |-> ACTIVATE_SMART_TOOL,
   list_smart_cmds |-> LIST_SMART_CMDS_TOOL,
   list_scheduled_jobs |-> LIST_SCHEDULED_JOBS_TOOL,
   cancel_scheduled_job |-> CANCEL_SCHEDULED_JOB_TOOL]

Tools == DOMAIN ALL_TOOL_DEFINITIONS
Hints(tool) == ALL_TOOL_DEFINITIONS[tool].hints

isSchedulable(tool) == "readOnly" \notin Hints(tool) /\ tool # "cancel_scheduled_job"

toolHandlers(given) ==
  [fetchUser |-> executeFetchUser(given), search |-> executeSearch(given),
   fetch |-> executeFetch(given), list_devices |-> executeListDevices(given),
   list_locations |-> executeListLocations(given), list_groups |-> executeListGroups(given),
   get_device |-> executeGetDevice(given), update_device |-> executeUpdateDevice(given),
   delete_device |-> executeDeleteDevice(given),
   get_device_state |-> executeGetDeviceState(given),
   get_location_state |-> executeGetLocationState(given),
   get_device_state_by_mac |-> executeGetDeviceStateByMac(given),
   control_device |-> executeControlDevice(given),
   control_device_simple |-> executeControlDeviceSimple(given),
   control_devices_bulk |-> executeControlDevicesBulk(given),
   widget_list_devices |-> executeWidgetListDevices(given),
   widget_get_device |-> executeWidgetGetDevice(given),
   widget_control_device |-> executeWidgetControlDevice(given),
   interactive_device |-> executeWidgetControlDevice(given),
   list_smarts |-> executeListSmarts(given), get_smart |-> executeGetSmart(given),
   activate_smart |-> executeActivateSmart(given),
   list_smart_cmds |-> executeListSmartCmds(given),
   list_scheduled_jobs |-> executeListScheduledJobs(given),
   cancel_scheduled_job |-> executeCancelScheduledJob(given)]
=============================================================================
