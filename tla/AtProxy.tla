------------------------------- MODULE AtProxy -------------------------------
(***************************************************************************)
(* services/baseband-proxy-hal-rs: the verdict on an AT command.  A text   *)
(* is a sequence of tokens: the letters AT, names of commands, digits, the *)
(* equals and question marks.  Letters have a case.  The proxy keeps no    *)
(* state between requests; sanitised replacements are never produced.      *)
(***************************************************************************)
EXTENDS Naturals, Sequences, SequencesExt

CONSTANTS
  Tokens,     \* tokens of a text, with "AT", "=" and "?" among them
  Upper,      \* to_uppercase, token by token
  Allowlist, Blocklist,
  MaxLength   \* bound on a text

VARIABLES text, response

\* Upper case is a letter's final form, and the marks have no case.
ConstantsOK ==
  /\ {"AT", "=", "?"} \subseteq Tokens
  /\ Upper \in [Tokens -> Tokens]
  /\ \A t \in Tokens : Upper[Upper[t]] = Upper[t]
  /\ Upper["AT"] = "AT"
  /\ \A mark \in {"=", "?"}, t \in Tokens : Upper[t] = mark <=> t = mark
  /\ MaxLength \in Nat

Texts == UNION {[1 .. n -> Tokens] : n \in 1 .. MaxLength}

UpperCase(seq) == [k \in DOMAIN seq |-> Upper[seq[k]]]

WellFormed(seq) == seq # <<>> /\ Upper[Head(seq)] = "AT"

\* Faulty: the mark of a query is looked for after the parameters are cut off.
WithoutQueryKept(seq) == seq

WithoutQuery(seq) == IF seq # <<>> /\ Last(seq) = "?" THEN Front(seq) ELSE seq

\* ATCommand::parse: what is left without a final ?, up to the first =.
Command(seq) ==
  LET rest == WithoutQuery(Tail(seq))
      marks == {k \in DOMAIN rest : rest[k] = "="}
  IN  IF marks = {} THEN rest
      ELSE SubSeq(rest, 1, (CHOOSE k \in marks : \A j \in marks : k <= j) - 1)

\* evaluate: exact names, the blocklist first, and what is in neither is
\* blocked.  The parameters and the uid of the request are not looked at.
Allowed(seq) ==
  LET name == UpperCase(Command(seq)) IN
  /\ WellFormed(seq)
  /\ name \notin Blocklist
  /\ name \in Allowlist

\* handle_client answers a line and reads the next; an allowed text goes out
\* as it came in.
Request ==
  /\ text = <<>>
  /\ text' \in Texts
  /\ response' = [allowed |-> Allowed(text')]

Replied == text # <<>> /\ text' = <<>> /\ response' = [allowed |-> FALSE]

Init == text = <<>> /\ response = [allowed |-> FALSE]

Next == Request \/ Replied

Spec == Init /\ [][Next]_<<text, response>>

-----------------------------------------------------------------------------
(* Properties *)

\* The variables have their types.
TypeOK == text \in Texts \cup {<<>>} /\ response \in [allowed : BOOLEAN]

\* The way a command is written makes no difference: small letters, the mark of a
\* query and parameters, whatever they are, neither open nor close what its name
\* decides, although the mark is cut off before the parameters (at_filter.rs:29-62,
\* 135-160).  A name is open to queries and settings alike, +COPS too, for which a
\* comment has "query only" (at_filter.rs:93).
FormDoesNotMatter ==
  /\ text # <<>> => response.allowed = Allowed(UpperCase(text))
  /\ WellFormed(text) /\ Last(text) # "?" => response.allowed = Allowed(Append(text, "?"))
  /\ WellFormed(text) => \A k \in DOMAIN text :
       text[k] = "=" /\ text[k - 1] # "?" => response.allowed = Allowed(SubSeq(text, 1, k - 1))
=============================================================================
