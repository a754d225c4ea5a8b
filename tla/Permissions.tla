---------------------------- MODULE Permissions ----------------------------
(***************************************************************************)
(* The checker (services/checker/static): may a client perform an          *)
(* operation on an account or on a wallet?                                 *)
(*                                                                         *)
(* A regular expression is the set of names that it matches.  A list of    *)
(* operations is a sequence of items: "Sign", "~Sign", "All" and "None"    *)
(* are the items with negative = FALSE, TRUE, FALSE, TRUE and the          *)
(* operations "Sign", "Sign", AnyOp, AnyOp.                                  *)
(***************************************************************************)
EXTENDS Naturals, Sequences, FiniteSets, SequencesExt

CONSTANTS
  Clients,
  WalletNames,
  AccountNames,
  Operations,
  Configured     \* the permissions of the configuration file, by client

NoName == ""     \* an absent wallet, account or client name
AnyOp  == "Any"

\* An expression that is left out; by itself it matches the empty name only.
Blank == {NoName}

IsPermission(p) ==
  /\ p.wallet \subseteq WalletNames \cup {NoName}
  /\ p.account \subseteq AccountNames \cup {NoName}
  /\ p.operations \in Seq([negative : BOOLEAN, operation : Operations \cup {AnyOp}])

ASSUME PermissionsAssumption ==
  /\ NoName \notin WalletNames \cup AccountNames
  /\ AnyOp \notin Operations
  /\ DOMAIN Configured \subseteq Clients \cup {NoName}
  /\ \A c \in DOMAIN Configured :
       IsFiniteSet(Configured[c]) /\ \A p \in Configured[c] : IsPermission(p)

Regexify(pattern) ==
  IF pattern = Blank THEN AccountNames \cup {NoName} ELSE pattern

\* What the checker refuses to start with.
ParametersOK ==
  \A c \in DOMAIN Configured :
    /\ c # NoName
    /\ Configured[c] # {}
    /\ \A p \in Configured[c] : p.wallet # Blank

Path(p) == [wallet |-> p.wallet, account |-> Regexify(p.account),
            operations |-> p.operations]

\* The paths of a client come out of a Go map, in another order every time.
Accesses ==
  LET Orders == UNION {SetToSeqs({Path(p) : p \in Configured[c]}) :
                         c \in DOMAIN Configured}
  IN {f \in [DOMAIN Configured -> Orders] :
        \A c \in DOMAIN Configured :
          ToSet(f[c]) = {Path(p) : p \in Configured[c]}}

Matches(path, wallet, account) ==
  wallet \in path.wallet /\ account \in path.account

\* Mutant: allowed if any item of the list allows it.
VerdictPositiveFirst(path, operation) ==
  LET Mentions(item) == item.operation \in {operation, AnyOp}
      said == SelectSeq(path.operations, Mentions)
  IN CASE said = << >> -> "neutral"
       [] \E i \in DOMAIN said : ~said[i].negative -> "allow"
       [] OTHER -> "deny"

\* The first item that mentions the operation decides; the list may have none.
Verdict(path, operation) ==
  LET Mentions(item) == item.operation \in {operation, AnyOp}
      first == SelectInSeq(path.operations, Mentions)
  IN CASE first = 0 -> "neutral"
       [] first # 0 /\ path.operations[first].negative -> "deny"
       [] OTHER -> "allow"

\* Mutant: the first path that matches decides, whatever it says.
CheckFirstMatch(access, client, wallet, account, operation) ==
  /\ client # NoName /\ wallet # NoName
  /\ client \in DOMAIN access
  /\ LET Fits(path) == Matches(path, wallet, account)
         first == SelectInSeq(access[client], Fits)
     IN first # 0 /\ Verdict(access[client][first], operation) = "allow"

\* A wallet is checked under the empty account name.
Check(access, client, wallet, account, operation) ==
  /\ client # NoName /\ wallet # NoName
  /\ client \in DOMAIN access
  /\ LET Decides(path) == /\ Matches(path, wallet, account)
                          /\ Verdict(path, operation) # "neutral"
         first == SelectInSeq(access[client], Decides)
     IN first # 0 /\ Verdict(access[client][first], operation) = "allow"

(***************************************************************************)
(* What a list of operations says, without regard to how it is read.       *)
(***************************************************************************)
SaysFirst(p, operation, negative) ==
  \E i \in DOMAIN p.operations :
    /\ p.operations[i].operation \in {operation, AnyOp}
    /\ p.operations[i].negative = negative
    /\ \A j \in 1 .. i - 1 :
         p.operations[j].operation \notin {operation, AnyOp}

Covers(p, wallet, account) ==
  wallet \in p.wallet /\ (p.account = Blank \/ account \in p.account)

Granted(client, wallet, account, operation) ==
  /\ client \in DOMAIN Configured
  /\ \E p \in Configured[client] : /\ Covers(p, wallet, account)
                                   /\ SaysFirst(p, operation, FALSE)

Denied(client, wallet, account, operation) ==
  /\ client \in DOMAIN Configured
  /\ \E p \in Configured[client] : /\ Covers(p, wallet, account)
                                   /\ SaysFirst(p, operation, TRUE)
=============================================================================
