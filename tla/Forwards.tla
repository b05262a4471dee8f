------------------------------ MODULE Forwards ------------------------------
(***************************************************************************)
(* What a user writes to have connections forwarded, and what the program  *)
(* makes of it before it starts:                                           *)
(*                                                                         *)
(*   the -L specifications of "client tcp", parsed by Parse and ParseAll   *)
(*   (src/internal/forward/forward.go), and                                *)
(*                                                                         *)
(*   the routes of "gateway", from the configuration file and from --route *)
(*   flags: mergeGatewayRoutes (src/internal/cmd/cmd.go), checked by New   *)
(*   and put together by device in groupByDevice (gateway.go).             *)
(*                                                                         *)
(* A text is a sequence of tokens: the marks ":", "[", "]" and words.      *)
(* A function that may fail returns the set of its result, {} on error.    *)
(***************************************************************************)
EXTENDS Naturals, Sequences, FiniteSetsExt

CONSTANTS Ports,    \* words that are port numbers from 1 to 65535
          Names     \* words that are neither a port nor "0"

ASSUME ForwardsAssumption ==
    /\ Ports \cap Names = {}
    /\ (Ports \cup Names) \cap {":", "[", "]", "0", "localhost"} = {}

Words == Ports \cup Names \cup {"0"}

Has(s, t) == \E i \in DOMAIN s : s[i] = t

(* strings.LastIndex, 0 when there is none.                                *)
LastIndex(s, t) == Max({i \in DOMAIN s : s[i] = t} \cup {0})

Upto(s, i) == SubSeq(s, 1, i)
From(s, i) == SubSeq(s, i, Len(s))
EndsIn(s, t) == s # <<>> /\ s[Len(s)] = t

-----------------------------------------------------------------------------
(* Parse: "[bind_address:]port:host:hostport".                             *)

(* Port 0, which the system replaces by a free one, is for listening only. *)
ValidPort(p, allowZero) ==
    Len(p) = 1 /\ (p[1] \in Ports \/ (allowZero /\ p[1] = "0"))

(* Peel a trailing ":port" off.                                            *)
SplitPort(s, allowZero) ==
    LET i == LastIndex(s, ":")
    IN  IF i > 0 /\ ValidPort(From(s, i + 1), allowZero)
        THEN {[rest |-> Upto(s, i - 1), port |-> s[i + 1]]}
        ELSE {}

(* The host ends at the last colon, also inside brackets.                  *)
MutantSplitHost(s) ==
    LET i == LastIndex(s, ":")
        host == From(s, i + 1)
    IN  IF host = <<>> THEN {} ELSE {[rest |-> Upto(s, i), host |-> host]}

(* Peel a trailing host off: a bracketed literal, or what follows the last *)
(* colon.  The colon before it stays with the rest.                        *)
SplitHost(s) ==
    IF EndsIn(s, "]")
    THEN LET open == LastIndex(s, "[")
             host == SubSeq(s, open + 1, Len(s) - 1)
         IN  IF open = 0 \/ host = <<>> THEN {} ELSE {[rest |-> Upto(s, open - 1), host |-> host]}
    ELSE LET i == LastIndex(s, ":")
             host == From(s, i + 1)
         IN  IF host = <<>> \/ Has(host, "]") THEN {} ELSE {[rest |-> Upto(s, i), host |-> host]}

WithoutColon(s) == IF EndsIn(s, ":") THEN Upto(s, Len(s) - 1) ELSE s

SplitTarget(s) ==
    UNION {{[rest |-> WithoutColon(h.rest), target |-> [host |-> h.host, port |-> p.port]] :
                h \in {h \in SplitHost(p.rest) : h.rest # <<>>}} :
               p \in SplitPort(s, FALSE)}

(* normalizeHost strips the brackets of a bind address.                    *)
NormalizeHost(s) ==
    LET bracketed == s # <<>> /\ s[1] = "[" /\ EndsIn(s, "]")
    IN  IF bracketed
        THEN IF Len(s) > 2 THEN {SubSeq(s, 2, Len(s) - 1)} ELSE {}
        ELSE IF Has(s, "[") \/ Has(s, "]") THEN {} ELSE {s}

defaultBindAddr == <<"localhost">>

OrDefault(host) == IF host = <<>> THEN defaultBindAddr ELSE host

SplitListen(s) ==
    IF ~Has(s, ":")
    THEN IF ValidPort(s, TRUE) THEN {[host |-> defaultBindAddr, port |-> s[1]]} ELSE {}
    ELSE UNION {{[host |-> OrDefault(h), port |-> p.port] : h \in NormalizeHost(p.rest)} :
                    p \in SplitPort(s, TRUE)}

Parse(s) ==
    UNION {{[listen |-> l, target |-> t.target] : l \in SplitListen(t.rest)} :
               t \in SplitTarget(s)}

(* ParseAll refuses an empty list, a text Parse refuses, and two forwards  *)
(* that listen on one address.                                             *)
ParseAll(texts) ==
    IF /\ texts # <<>>
       /\ \A i \in DOMAIN texts : Parse(texts[i]) # {}
       /\ \A i, j \in DOMAIN texts :
             i # j => \A a \in Parse(texts[i]), b \in Parse(texts[j]) : a.listen # b.listen
    THEN {[i \in DOMAIN texts |-> CHOOSE r \in Parse(texts[i]) : TRUE]}
    ELSE {}

-----------------------------------------------------------------------------
(* The routes of a gateway.  The fields of a --route flag come in any      *)
(* order; a repeated one overwrites the one before.                        *)

Fields == [key : STRING, value : STRING]
Routes == [listen : STRING, device : STRING, target : STRING]

FieldOf(flag, key) ==
    LET i == Max({i \in DOMAIN flag : flag[i].key = key} \cup {0})
    IN  IF i = 0 THEN "" ELSE flag[i].value

Complete(route) == "" \notin {route.listen, route.device, route.target}

ParseRouteFlag(flag) ==
    LET route == [listen |-> FieldOf(flag, "listen"), device |-> FieldOf(flag, "device"),
                  target |-> FieldOf(flag, "target")]
    IN  IF (\A i \in DOMAIN flag : flag[i].key \in {"listen", "device", "target"})
              /\ Complete(route)
        THEN {route} ELSE {}

ParseRouteFlags(flags) ==
    IF \A i \in DOMAIN flags : ParseRouteFlag(flags[i]) # {}
    THEN {[i \in DOMAIN flags |-> CHOOSE r \in ParseRouteFlag(flags[i]) : TRUE]}
    ELSE {}

Listens(routes) == {routes[i].listen : i \in DOMAIN routes}

(* override: a later flag for an address takes the place of an earlier.    *)
Override(routes, listen) ==
    routes[Max({i \in DOMAIN routes : routes[i].listen = listen})]

(* A set of places, as the increasing sequence of its members.             *)
InOrder(I) ==
    CHOOSE s \in [1..Cardinality(I) -> I] : \A j, k \in DOMAIN s : j < k => s[j] < s[k]

(* The routes for addresses the configuration does not have, as they come. *)
Added(config, routes) ==
    LET places == InOrder({i \in DOMAIN routes : routes[i].listen \notin Listens(config)})
    IN  [k \in DOMAIN places |-> routes[places[k]]]

(* The configuration's routes keep their place, whether replaced or not.   *)
MutantMerge(config, routes) == config \o Added(config, routes)

Merge(config, routes) ==
    [i \in DOMAIN config |-> IF config[i].listen \in Listens(routes)
                             THEN Override(routes, config[i].listen) ELSE config[i]]
    \o Added(config, routes)

(* gateway.New: some routes, none with an empty field, no address twice.   *)
Acceptable(routes) ==
    /\ routes # <<>>
    /\ \A i \in DOMAIN routes : Complete(routes[i])
    /\ \A i, j \in DOMAIN routes : i # j => routes[i].listen # routes[j].listen

Devices(routes) == {routes[i].device : i \in DOMAIN routes}

(* The places of a device's routes; it gets them in this order.            *)
ForDevice(routes, d) == {i \in DOMAIN routes : routes[i].device = d}

-----------------------------------------------------------------------------
(* What the texts mean, to compare Parse with.                             *)

Bare(name) == <<name>>
Bracketed == {<<"[">> \o v6 \o <<"]">> : v6 \in {<<":", ":">> \o <<n>> : n \in Names}}

(* The ways to write a bind address, a colon included, and what they mean. *)
Binds ==
    {[text |-> <<>>, host |-> defaultBindAddr], [text |-> <<":">>, host |-> defaultBindAddr]}
    \cup {[text |-> <<n, ":">>, host |-> <<n>>] : n \in Names}
    \cup {[text |-> b \o <<":">>, host |-> SubSeq(b, 2, Len(b) - 1)] : b \in Bracketed}

Targets ==
    {[text |-> <<n>>, host |-> <<n>>] : n \in Names}
    \cup {[text |-> b, host |-> SubSeq(b, 2, Len(b) - 1)] : b \in Bracketed}

(* The words of a text, without the marks between them.                    *)
WordsOf(s) ==
    LET places == InOrder({i \in DOMAIN s : s[i] \in Words})
    IN  [k \in DOMAIN places |-> s[places[k]]]

(* All texts of n tokens; two words never touch.                           *)
Texts(n) ==
    {s \in [1..n -> Words \cup {":", "[", "]"}] :
        \A i \in 1..n-1 : ~(s[i] \in Words /\ s[i+1] \in Words)}

(* Every -L text of the documented form is read as it is written, with     *)
(* localhost for a bind address left out; and of any other text that is    *)
(* accepted no word is lost or changes its place, so that an address       *)
(* outside the loopback is listened on only if the user wrote one.         *)
ReadAsMeant ==
    /\ \A b \in Binds, t \in Targets, p \in Ports \cup {"0"}, q \in Ports :
          Parse(b.text \o <<p, ":">> \o t.text \o <<":", q>>)
              = {[listen |-> [host |-> b.host, port |-> p],
                  target |-> [host |-> t.host, port |-> q]]}
    /\ \A s \in UNION {Texts(n) : n \in 0..6} : \A r \in Parse(s) :
          WordsOf(s) = WordsOf(r.listen.host) \o <<r.listen.port>>
                          \o WordsOf(r.target.host) \o <<r.target.port>>

=============================================================================
