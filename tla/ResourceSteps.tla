----------------------------- MODULE ResourceSteps -----------------------------
(***************************************************************************)
(* The vocabulary in which the handlers of a resource are written down.    *)
(* A resource of the provider is a schema and four handlers (Create, Read, *)
(* Update, Delete); a handler is straight-line code with early returns:    *)
(* API calls, each of which returns from the handler when it fails,        *)
(* conditions of the form "if the plan changes these attributes", and      *)
(* copies between the plan, the answer of the API and the saved state.     *)
(* A program is a sequence of the steps below; Resource.tla runs it.       *)
(***************************************************************************)
EXTENDS Sequences, TLC

\* A step: what it does, the attributes it is about, what a 404 answer leads
\* to, and the conditions for it to run: one of "when" differs between plan and
\* state, all of "given" are set in the model and all of "configured" in the
\* configuration, none of "unless" is set, and one of "unknown" is still to be
\* computed.  An empty condition holds.  A "clean" step is left out once an error
\* was noted.  A request carries the attributes in "altered" only if they differ.
Step(op, attrs, missing) ==
    [op |-> op, attrs |-> attrs, missing |-> missing,
     when |-> {}, given |-> {}, configured |-> {}, unless |-> {}, unknown |-> {},
     altered |-> {}, clean |-> FALSE]

\* API calls. Create, Put and Update carry the given attributes of the plan;
\* Put creates the object or takes the place of the one that has its address;
\* UpdateChanged carries those that differ from the state, and is not made
\* when none does, SendChanged is made all the same, SendAltered carries some
\* attributes always and others if they differ; Blank carries an
\* attribute that is unknown as if it was empty, Clear takes the attributes
\* back. Get reads the object. A call that fails ends the handler.
Create(attrs)        == Step("create", attrs, "error")
Put(attrs)           == Step("put", attrs, "error")
Update(attrs)        == Step("update", attrs, "error")
SendAltered(attrs, altered) ==
    [Step("update", attrs \union altered, "error") EXCEPT !.altered = altered]
SendChanged(attrs)   == SendAltered({}, attrs)
UpdateChanged(attrs) == [SendChanged(attrs) EXCEPT !.when = attrs]
Blank(attrs)         == Step("blank", attrs, "error")
Clear(attrs)         == Step("clear", attrs, "error")
Get                  == Step("get", {}, "error")
GetOrForget          == Step("get", {}, "forget")
GetIfThere           == Step("get", {}, "ok")
Delete               == Step("delete", {}, "error")
DeleteIfThere        == Step("delete", {}, "ok")
\* A look-up of some attributes, which adds them to the answer; it may be empty
\* where the API has none, or even where the look-up fails.
GetSome(attrs)       == Step("list", attrs, "error")
GetOrEmpty(attrs)    == Step("list", attrs, "empty")
GetOrNothing(attrs)  == Step("list", attrs, "nothing")
\* Calls whose failure is reported, but does not end the handler.
UpdateAndGoOn(attrs) == Step("update", attrs, "goOn")
PutAndGoOn(attrs)    == Step("put", attrs, "goOn")
GetAndGoOn           == Step("get", {}, "goOn")
DeleteAndGoOn        == Step("delete", {}, "goOn")
\* Any other call or poll the handler makes and whose failure ends it.
Wait                 == Step("wait", {}, "error")

\* Local steps. SaveId records the identity alone (State.SetAttribute on the
\* id, or d.SetId), Save the whole model, Forget drops it. Require gives up
\* where a value of the plan is null, RequireBefore where one of the state was,
\* Reject always;
\* ForgetUnless drops a resource that has none. Refresh overwrites attributes
\* with the answer of the API, RefreshSet where it has a value; Preserve
\* (preserveKnown) only the unknown ones; Copy (CopyFrom with preserveKnown)
\* fills those from the state, Compute by itself where nothing is given,
\* Without makes them null.
SaveId            == Step("saveId", {}, "error")
Save              == Step("save", {}, "error")
Forget            == Step("forget", {}, "error")
Require(attrs)    == Step("require", attrs, "error")
RequireBefore(attrs) == Step("requireBefore", attrs, "error")
Reject            == Step("reject", {}, "error")
ForgetUnless(attrs)  == Step("forgetUnless", attrs, "error")
Refresh(attrs)    == Step("refresh", attrs, "error")
RefreshSet(attrs) == Step("refreshSet", attrs, "error")
Preserve(attrs)   == Step("preserve", attrs, "error")
Copy(attrs)       == Step("copy", attrs, "error")
Compute(attrs)    == Step("compute", attrs, "error")
Without(attrs)    == Step("without", attrs, "error")

\* A block the handler enters only if the plan changes one of the attributes,
\* only if the model it works on has a value for all of them, for none of
\* them, or has still to find one, or only if the configuration has a value for
\* all of them; and a block it leaves out once it has noted an error.
IfChanged(attrs, body) == [i \in DOMAIN body |-> [body[i] EXCEPT !.when = attrs]]
IfGiven(attrs, body)   == [i \in DOMAIN body |-> [body[i] EXCEPT !.given = attrs]]
IfUnknown(attrs, body) == [i \in DOMAIN body |-> [body[i] EXCEPT !.unknown = attrs]]
IfConfigured(attrs, body) == [i \in DOMAIN body |-> [body[i] EXCEPT !.configured = attrs]]
UnlessFailed(body)     == [i \in DOMAIN body |-> [body[i] EXCEPT !.clean = TRUE]]
Unless(attrs, body)    == [i \in DOMAIN body |-> [body[i] EXCEPT !.unless = attrs]]

\* Schemas.
\*   required, optional   given by every configuration; null when not given
\*   either, defaulted    Optional and Computed: the API or the schema fills in
\*   readOnly             Computed alone
\*   local                known to the provider and not to the API
\*   replace              RequiresReplace or ForceNew
\*   replaceSet           the same, only where the configuration gives a value
\*   replaceUnset         the same, only where the value is taken back
\*   replaceUnless        the same, unless the plan gives another attribute
\*   keep                 UseStateForUnknown
\*   keepUnless           the same, unless one of some attributes changes
\*   flag                 on or off: has one value that is not the default
\*   blank                optional, but read back as an empty value
\*   volatile             changed by the API itself on every update
\*   path                 part of the identity of the object: nobody changes it
\*   key                  the identity itself, where it may change: a call looks the
\*                        object up under the one that the handler knows
\*   frozen               while one of these is given, the API refuses to change the rest
\*   mirrors              derived by the API from another attribute
\*   nested               there only where the one it is nested in is given
\*   needs                may be given only together with another one
\*   exclusive            exactly one of the two is given
\*   conflicts            excludes the given ones
EmptySchema ==
    [required |-> {}, optional |-> {}, either |-> {}, defaulted |-> {}, readOnly |-> {},
     local |-> {}, replace |-> {}, replaceSet |-> {}, replaceUnset |-> {},
     replaceUnless |-> <<>>, keep |-> {}, keepUnless |-> <<>>, flag |-> {}, blank |-> {},
     path |-> {}, key |-> {}, frozen |-> {}, volatile |-> {}, mirrors |-> <<>>,
     nested |-> <<>>, needs |-> <<>>, exclusive |-> <<>>, conflicts |-> <<>>]

\* A resource written with the plugin framework or with the SDKv2. adopted is
\* TRUE when the object exists before the resource does and survives it,
\* touched are the attributes that a behaviour is to change. An import records
\* the identity of an object and, where that has several parts, the attributes
\* in imports; NotImportable is for the resources whose import is refused or
\* leaves the read handler without what it needs to find the object.
Framework(name, schema, create, read, update, delete) ==
    [name |-> name, framework |-> TRUE, adopted |-> FALSE, importable |-> TRUE,
     imports |-> {}, touched |-> {}, schema |-> schema,
     create |-> create, read |-> read, update |-> update, destroy |-> delete]

SDKv2(name, schema, create, read, update, delete) ==
    [Framework(name, schema, create, read, update, delete) EXCEPT !.framework = FALSE]

ImportedWith(resource, attrs) == [resource EXCEPT !.imports = attrs]
NotImportable(resource)       == [resource EXCEPT !.importable = FALSE]
================================================================================
