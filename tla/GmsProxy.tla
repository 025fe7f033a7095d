------------------------------- MODULE GmsProxy -------------------------------
(***************************************************************************)
(* services/gms-compat-proxy-rs: the verdict on a request to Google's      *)
(* services and the body that is sent on, without telemetry fields.  The   *)
(* proxy keeps no state between requests.                                  *)
(*                                                                         *)
(* An endpoint is the set of listed texts it contains.  A JSON value is a  *)
(* tree: a leaf, or an object or array with what is in it by name; the     *)
(* positions of an array are names too.                                    *)
(***************************************************************************)
EXTENDS Naturals, Sequences

CONSTANTS
  Endpoints, Allowlist, Blocklist,
  Fields,            \* keys of objects
  Positions,         \* names of the places in an array
  TELEMETRY_FIELDS,
  SameText,          \* eq_ignore_ascii_case: each key's lower case
  Depth              \* bound on the nesting of a body

VARIABLES
  request,   \* the line that is handled
  response   \* the answer that goes out

\* The bound is a number, and no place in an array is named like a key.
ConstantsOK ==
  /\ Depth \in Nat
  /\ Positions \cap Fields = {}

Leaf == [kind |-> "leaf", in |-> <<>>]
Node(kind, names, values) ==
  [kind : {kind}, in : UNION {[n -> values] : n \in SUBSET names}]

Trees(values) ==
  {Leaf} \cup Node("object", Fields, values) \cup Node("array", Positions, values)

Bodies[d \in 0 .. Depth] == IF d = 0 THEN {Leaf} ELSE Trees(Bodies[d - 1])

NoRequest == [endpoint |-> {}, body |-> Leaf]
NoResponse == [allowed |-> FALSE, body |-> [kind |-> "none", in |-> <<>>]]

Telemetry(key) == \E f \in TELEMETRY_FIELDS : SameText[key] = SameText[f]

\* Faulty: arrays are passed on as they are.
InspectedObjects(kind) == kind = "object"

Inspected(kind) == kind \in {"object", "array"}

\* What is left of an object or array: its values without the telemetry.
Left(value) == {k \in DOMAIN value.in : value.kind = "array" \/ ~Telemetry(k)}

\* TelemetryStrip::strip, which calls itself for the values within.
Stripped(strip, value) ==
  IF ~Inspected(value.kind) THEN value
  ELSE [kind |-> value.kind, in |-> [k \in Left(value) |-> strip[value.in[k]]]]
Strip[value \in Bodies[Depth]] == Stripped(Strip, value)

\* The blocklist is looked at first, and what is in neither list is denied.
Allowed(endpoint) ==
  /\ endpoint \cap Blocklist = {}
  /\ endpoint \cap Allowlist # {}

\* process_request; headers are handled like the keys of one object.
Request ==
  /\ response = NoResponse
  /\ \E endpoint \in Endpoints, body \in Bodies[Depth] :
       /\ request' = [endpoint |-> endpoint, body |-> body]
       /\ response' = IF Allowed(endpoint) THEN [allowed |-> TRUE, body |-> Strip[body]]
                      ELSE [allowed |-> FALSE, body |-> Leaf]

\* The reply is written and the next line read.
Replied == response # NoResponse /\ request' = NoRequest /\ response' = NoResponse

Init == request = NoRequest /\ response = NoResponse

Next == Request \/ Replied

Spec == Init /\ [][Next]_<<request, response>>

-----------------------------------------------------------------------------
(* Properties *)

\* The variables have their types, bodies being the trees that Bodies holds.
TypeOK ==
  /\ request.endpoint \in Endpoints \cup {{}}
  /\ request.body \in Bodies[Depth]
  /\ response.allowed \in BOOLEAN
  /\ response.body \in Bodies[Depth] \cup {NoResponse.body}

\* The ways from the root of a tree to each of its nodes, with the node's kind.
Ways[value \in Bodies[Depth]] ==
  {<<value.kind>>} \cup
    UNION {{<<k>> \o w : w \in Ways[value.in[k]]} : k \in DOMAIN value.in}

\* No name on the way is a telemetry field of an object.
Clean(way) == \A i \in 1 .. Len(way) - 1 : way[i] \in Positions \/ ~Telemetry(way[i])

\* The body sent on has exactly the nodes of the request's body to which no way
\* leads through a telemetry field, at any depth, in objects within arrays and in
\* any spelling: no identifier is left and nothing else is lost (proxy.rs:119-143).
StripIsComplete ==
  response.allowed => Ways[response.body] = {w \in Ways[request.body] : Clean(w)}
=============================================================================
