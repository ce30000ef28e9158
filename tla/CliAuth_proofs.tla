----------------------------- MODULE CliAuth_proofs -----------------------------
(***************************************************************************)
(* For any logins, processes, requests, lifetimes and bounds: what the rows  *)
(* and the requests in progress hold, that a code is exchanged once and only *)
(* after the user's approval, that a login has one live token and a logout   *)
(* ends it, and that the keyring keeps no dead session.                     *)
(***************************************************************************)
EXTENDS CliAuth, FiniteSetTheorems, SequenceTheorems, TLAPS

-----------------------------------------------------------------------------
(* Type correctness, with what a process and a request know of the rows they *)
(* refer to.  A request that is going to change a status has read one that   *)
(* is not final.                                                             *)
CliOK(p, rows) ==
  /\ p \in Cli
  /\ p.token =< Len(rows)
  /\ p.phase = "login" => p.login \in Logins
  /\ p.phase \in {"refresh", "logout", "save"} => p.token # 0

RequestOK(q, rows) ==
  /\ q \in Request
  /\ q.phase # "none" => q.login \in Logins
  /\ q.phase = "exchange" => q.read = "approved"
  /\ q.phase = "expire" => q.read \in {"pending", "approved"}
  /\ q.phase \in {"rotate", "revoke"} => q.token \in DOMAIN rows /\ rows[q.token].login = q.login

BrowserOK(r) ==
  /\ r \in Browser
  /\ r.phase \in {"approved", "denied", "expired"} =>
       r.login \in Logins /\ r.read \in {"pending", "approved"}

TypeInv ==
  /\ TypeOK
  /\ \A c \in Clis : CliOK(cli[c], tokens) /\ RequestOK(request[c], tokens)
  /\ \A b \in Browsers : BrowserOK(browser[b])

(* Rows are added and revoked, never removed or handed to another login. *)
Extends(rows, old) ==
  /\ rows \in Seq(Token)
  /\ Len(rows) >= Len(old)
  /\ \A t \in DOMAIN old : rows[t].login = old[t].login

LEMMA ExtendsSelf == TypeOK => Extends(tokens, tokens)
BY DEF TypeOK, Extends

LEMMA RestingOK == \A rows \in Seq(Token) : CliOK(Resting, rows)
BY DEF CliOK, Resting, Cli, CliPhases

LEMMA NoRequestOK == \A rows \in Seq(Token) : RequestOK(NoRequest, rows)
BY DEF RequestOK, NoRequest, Request, Statuses

LEMMA NewTokenType ==
  ASSUME TypeOK, NEW l \in Logins, NEW root \in BOOLEAN
  PROVE  NewToken(l, root) \in Token
BY TtlAssumption DEF TypeOK, NewToken, Token

LEMMA Appended ==
  ASSUME NEW s \in Seq(Token), NEW x \in Token, NEW rows, rows = Append(s, x)
  PROVE  /\ rows \in Seq(Token)
         /\ Len(rows) = Len(s) + 1
         /\ DOMAIN rows = 1 .. (Len(s) + 1)
         /\ rows[Len(s) + 1] = x
         /\ \A t \in DOMAIN s : t # Len(s) + 1 /\ t \in DOMAIN rows /\ rows[t] = s[t]
OBVIOUS

(* A process and its request go on, the other processes do not. *)
LEMMA Carried ==
  ASSUME TypeInv, NEW c \in Clis, NEW p, NEW q,
         Extends(tokens', tokens), CliOK(p, tokens'), RequestOK(q, tokens'),
         cli' = cli \/ cli' = [cli EXCEPT ![c] = p],
         request' = request \/ request' = [request EXCEPT ![c] = q]
  PROVE  /\ cli' \in [Clis -> Cli] /\ \A d \in Clis : cli'[d].token =< Len(tokens')
         /\ request' \in [Clis -> Request]
         /\ \A d \in Clis : CliOK(cli'[d], tokens') /\ RequestOK(request'[d], tokens')
<1>1. Len(tokens) \in Nat /\ Len(tokens') \in Nat /\ DOMAIN tokens \subseteq DOMAIN tokens'
  BY DEF TypeInv, TypeOK, Extends
<1>2. ASSUME NEW d \in Clis PROVE CliOK(cli[d], tokens') /\ RequestOK(request[d], tokens')
  <2>1. CliOK(cli[d], tokens')
    BY <1>1 DEF TypeInv, CliOK, Extends, Cli
  <2>2. RequestOK(request[d], tokens')
    BY <1>1 DEF TypeInv, RequestOK, Extends
  <2> QED BY <2>1, <2>2
<1>3. cli' \in [Clis -> Cli] /\ request' \in [Clis -> Request]
  BY DEF TypeInv, TypeOK, CliOK, RequestOK
<1>4. ASSUME NEW d \in Clis PROVE CliOK(cli'[d], tokens') /\ RequestOK(request'[d], tokens')
  <2>1. cli'[d] = cli[d] \/ cli'[d] = p
    BY DEF TypeInv, TypeOK
  <2>2. request'[d] = request[d] \/ request'[d] = q
    BY DEF TypeInv, TypeOK
  <2> QED BY <2>1, <2>2, <1>2
<1> QED BY <1>3, <1>4 DEF CliOK

LEMMA InitType == Init => TypeInv
<1> SUFFICES ASSUME Init PROVE TypeInv
  OBVIOUS
<1>1. tokens \in Seq(Token) /\ Len(tokens) = 0
  BY DEF Init
<1>2. login \in [Logins -> Login]
  BY DEF Init, Login, Statuses
<1>3. \A c \in Clis : CliOK(cli[c], tokens) /\ RequestOK(request[c], tokens)
  BY <1>1, RestingOK, NoRequestOK DEF Init
<1>4. cli \in [Clis -> Cli] /\ request \in [Clis -> Request]
  BY <1>3 DEF Init, CliOK, RequestOK
<1>5. \A b \in Browsers : BrowserOK(browser[b])
  BY DEF Init, BrowserOK, Browser, Statuses
<1>6. browser \in [Browsers -> Browser]
  BY <1>5 DEF Init, BrowserOK
<1>7. keyring \in 0 .. Len(tokens) /\ \A c \in Clis : cli[c].token =< Len(tokens)
  BY <1>1, <1>3 DEF Init, CliOK
<1> QED BY <1>1, <1>2, <1>3, <1>4, <1>5, <1>6, <1>7 DEF TypeInv, TypeOK, Init

LEMMA StatusType ==
  ASSUME TypeOK, NEW l \in Logins, NEW read, NEW status \in Statuses, SetStatus(l, read, status)
  PROVE  login' \in [Logins -> Login] /\ raced' \subseteq Logins
BY DEF TypeOK, SetStatus, Login

(* A step of a process that leaves the rows alone. *)
LEMMA ProcessType ==
  ASSUME TypeInv, NEW c \in Clis, NEW p, NEW q,
         UNCHANGED <<tokens, browser, clock, history>>,
         login' \in [Logins -> Login], keyring' \in 0 .. Len(tokens), faults' \in Nat,
         CliOK(p, tokens), RequestOK(q, tokens),
         cli' = cli \/ cli' = [cli EXCEPT ![c] = p],
         request' = request \/ request' = [request EXCEPT ![c] = q]
  PROVE  TypeInv'
<1>1. Extends(tokens', tokens)
  BY ExtendsSelf DEF TypeInv
<1> QED BY <1>1, Carried DEF TypeInv, TypeOK, history

LEMMA CommandType ==
  ASSUME TypeInv, NEW c \in Clis, Command(c)
  PROVE  TypeInv'
<1> USE DEF TypeInv
<1>0. RequestOK(NoRequest, tokens)
  BY NoRequestOK DEF TypeOK
<1>1. CASE Start(c)
  <2>1. PICK l \in Logins :
          /\ login' = [login EXCEPT ![l] = [status |-> "pending", expires |-> clock + CodeTtl]]
          /\ cli' = [cli EXCEPT ![c] = [phase |-> "login", login |-> l, token |-> 0]]
    BY <1>1 DEF Start, SetCli
  <2>2. [status |-> "pending", expires |-> clock + CodeTtl] \in Login
    BY TtlAssumption DEF TypeOK, Login, Statuses
  <2>3. login' \in [Logins -> Login]
    BY <2>1, <2>2 DEF TypeOK
  <2>4. CliOK([phase |-> "login", login |-> l, token |-> 0], tokens)
    BY DEF CliOK, Cli, CliPhases, TypeOK
  <2> QED BY <1>0, <1>1, <2>1, <2>3, <2>4, ProcessType DEF Start, TypeOK
<1>2. CASE Refresh(c) \/ Logout(c)
  <2>1. PICK phase \in {"refresh", "logout"} :
          cli' = [cli EXCEPT ![c] = [phase |-> phase, login |-> None, token |-> keyring]]
    BY <1>2 DEF Refresh, Logout, SetCli
  <2>2. keyring # 0 /\ UNCHANGED <<server, keyring, request, browser, clock, faults, history>>
    BY <1>2 DEF Refresh, Logout
  <2>3. CliOK([phase |-> phase, login |-> None, token |-> keyring], tokens)
    BY <2>2 DEF CliOK, Cli, CliPhases, TypeOK
  <2> QED BY <1>0, <2>1, <2>2, <2>3, ProcessType DEF TypeOK, server
<1> QED BY <1>1, <1>2 DEF Command

LEMMA ClientType ==
  ASSUME TypeInv, NEW c \in Clis, Client(c)
  PROVE  TypeInv'
<1> USE DEF TypeInv
<1>0. RequestOK(NoRequest, tokens) /\ CliOK(Resting, tokens)
  BY NoRequestOK, RestingOK DEF TypeOK
<1>c. CliOK(cli[c], tokens) /\ cli[c] \in Cli
  BY DEF CliOK
<1>1. CASE Poll(c)
  <2> DEFINE l == cli[c].login
             s == login[l].status
             polling == [cli[c] EXCEPT !.phase = "polling"]
             asked(phase) == [NoRequest EXCEPT !.phase = phase, !.login = l, !.read = s]
  <2>1. l \in Logins /\ s \in Statuses
    BY <1>1, <1>c DEF Poll, CliOK, TypeOK, Login
  <2>2. CliOK(polling, tokens)
    BY <1>c DEF CliOK, Cli, CliPhases
  <2>3. UNCHANGED <<tokens, browser, clock, history, login, keyring, faults>>
    BY <1>1 DEF Poll
  <2>4. CASE cli' = [cli EXCEPT ![c] = Resting] /\ UNCHANGED request
    BY <1>0, <2>3, <2>4, ProcessType DEF TypeOK
  <2>5. CASE /\ Due(l) /\ cli' = [cli EXCEPT ![c] = polling]
             /\ request' = [request EXCEPT ![c] = asked("expire")]
    <3>1. RequestOK(asked("expire"), tokens)
      BY <2>1, <2>5 DEF RequestOK, NoRequest, Request, Due, Statuses
    <3> QED BY <2>2, <2>3, <2>5, <3>1, ProcessType DEF TypeOK
  <2>6. CASE /\ s = "approved" /\ cli' = [cli EXCEPT ![c] = polling]
             /\ request' = [request EXCEPT ![c] = asked("exchange")]
    <3>1. RequestOK(asked("exchange"), tokens)
      BY <2>1, <2>6 DEF RequestOK, NoRequest, Request, Statuses
    <3> QED BY <2>2, <2>3, <2>6, <3>1, ProcessType DEF TypeOK
  <2> QED BY <1>1, <2>4, <2>5, <2>6 DEF Poll, SetCli, Ask
<1>2. CASE LoginTimesOut(c) \/ Clear(c) \/ Save(c)
  <2>1. /\ \/ cli' = [cli EXCEPT ![c] = Resting]
           \/ cli' = [cli EXCEPT ![c] = [phase |-> "clear", login |-> None, token |-> cli[c].token]]
        /\ UNCHANGED <<server, request, browser, clock, faults, history>>
    BY <1>2 DEF LoginTimesOut, Clear, Save, SetCli, server
  <2>2. keyring' \in 0 .. Len(tokens)
    BY <1>2, <1>c DEF LoginTimesOut, Clear, Save, TypeOK, Cli, CliOK
  <2>3. CliOK([phase |-> "clear", login |-> None, token |-> cli[c].token], tokens)
    BY <1>c DEF CliOK, Cli, CliPhases
  <2> QED BY <1>0, <2>1, <2>2, <2>3, ProcessType DEF TypeOK, server
<1>3. CASE SendRefresh(c)
  <2> DEFINE t == cli[c].token
             asked == [NoRequest EXCEPT !.phase = "rotate", !.login = tokens[t].login, !.token = t]
  <2>1. t \in DOMAIN tokens
    BY <1>3, <1>c DEF SendRefresh, CliOK, Cli, TypeOK
  <2>2. RequestOK(asked, tokens)
    <3>1. tokens[t] \in Token /\ t \in Nat
      BY <2>1 DEF TypeOK
    <3> QED BY <2>1, <3>1 DEF RequestOK, NoRequest, Request, Statuses, Token
  <2>3. PICK phase \in {"refreshing", "clear"} :
          cli' = [cli EXCEPT ![c] = [cli[c] EXCEPT !.phase = phase]]
    BY <1>3 DEF SendRefresh, SetCli
  <2>4. CliOK([cli[c] EXCEPT !.phase = phase], tokens)
    BY <1>c DEF CliOK, Cli, CliPhases
  <2>5. /\ request' = request \/ request' = [request EXCEPT ![c] = asked]
        /\ UNCHANGED <<server, keyring, browser, clock, faults, history>>
    BY <1>3 DEF SendRefresh, Ask
  <2> QED BY <2>2, <2>3, <2>4, <2>5, ProcessType DEF TypeOK, server
<1>4. CASE SendLogout(c)
  <2> DEFINE t == cli[c].token
             l == tokens[t].login
             asked == [NoRequest EXCEPT !.phase = "revoke", !.login = l, !.token = t,
                                        !.rows = {u \in Family(l) : Live(u)}]
  <2>1. t \in DOMAIN tokens /\ tokens[t] \in Token /\ t \in Nat
    BY <1>4, <1>c DEF SendLogout, CliOK, Cli, TypeOK
  <2>2. {u \in Family(l) : Live(u)} \subseteq Nat
    BY DEF Family, TypeOK
  <2>3. RequestOK(asked, tokens)
    BY <2>1, <2>2 DEF RequestOK, NoRequest, Request, Statuses, Token
  <2>4. CliOK([cli[c] EXCEPT !.phase = "leaving"], tokens)
    BY <1>c DEF CliOK, Cli, CliPhases
  <2>5. /\ cli' = [cli EXCEPT ![c] = [cli[c] EXCEPT !.phase = "leaving"]]
        /\ request' = [request EXCEPT ![c] = asked]
        /\ UNCHANGED <<server, keyring, browser, clock, faults, history>>
    BY <1>4 DEF SendLogout, Ask, SetCli
  <2> QED BY <2>3, <2>4, <2>5, ProcessType DEF TypeOK, server
<1> QED BY <1>1, <1>2, <1>3, <1>4 DEF Client

LEMMA FaultType ==
  ASSUME TypeInv, NEW c \in Clis, NoAnswer(c) \/ Killed(c)
  PROVE  TypeInv'
<1> DEFINE q == [request[c] EXCEPT !.lost = TRUE]
           r == [request[c] EXCEPT !.lost = (request[c].phase # "none")]
           p == [cli[c] EXCEPT !.phase = "clear"]
<1>0. request[c] \in Request /\ (request[c].phase # "none") \in BOOLEAN
  BY DEF TypeInv, RequestOK
<1>1. RequestOK(q, tokens) /\ RequestOK(r, tokens)
  BY <1>0 DEF TypeInv, RequestOK, Request
<1>2. CliOK(p, tokens) /\ CliOK(Resting, tokens)
  BY RestingOK DEF TypeInv, TypeOK, CliOK, Cli, CliPhases
<1>3. faults' \in Nat /\ UNCHANGED <<server, keyring, browser, clock, history>>
  BY DEF NoAnswer, Killed, TypeInv, TypeOK
<1>4. cli' = [cli EXCEPT ![c] = Resting] \/ cli' = [cli EXCEPT ![c] = p]
  BY DEF NoAnswer, Killed, SetCli
<1>5. request' = [request EXCEPT ![c] = q] \/ request' = [request EXCEPT ![c] = r]
  BY DEF NoAnswer, Killed
<1> QED BY <1>1, <1>2, <1>3, <1>4, <1>5, ProcessType DEF TypeInv, TypeOK, server

(* What the two requests that change tokens do to the rows.                 *)
LEMMA RotatedRows ==
  ASSUME TypeInv, NEW c \in Clis, Rotate(c)
  PROVE  LET t == request[c].token
             l == request[c].login
             n == Len(tokens) + 1
         IN  /\ t \in DOMAIN tokens /\ tokens[t].login = l /\ l \in Logins
             /\ Extends(tokens', tokens) /\ Len(tokens') = n /\ DOMAIN tokens' = 1 .. n
             /\ tokens'[n] = NewToken(l, FALSE)
             /\ \A u \in DOMAIN tokens : /\ u # n /\ u \in DOMAIN tokens'
                                         /\ tokens'[u].root = tokens[u].root
                                         /\ u # t => tokens'[u] = tokens[u]
             /\ tokens'[t].revoked
<1> DEFINE t == request[c].token
           l == request[c].login
           s == [tokens EXCEPT ![t].revoked = TRUE]
<1>1. t \in DOMAIN tokens /\ tokens[t].login = l /\ l \in Logins
  BY DEF Rotate, TypeInv, RequestOK
<1>2. s \in Seq(Token) /\ Len(s) = Len(tokens) /\ DOMAIN s = DOMAIN tokens
      /\ \A u \in DOMAIN tokens : s[u].login = tokens[u].login /\ s[u].root = tokens[u].root
                                  /\ (u # t => s[u] = tokens[u])
      /\ s[t].revoked
  <2>1. tokens[t] \in Token
    BY <1>1 DEF TypeInv, TypeOK
  <2>2. [tokens[t] EXCEPT !.revoked = TRUE] \in Token
    BY <2>1 DEF Token
  <2>3. s = [tokens EXCEPT ![t] = [tokens[t] EXCEPT !.revoked = TRUE]]
    BY <1>1
  <2> HIDE DEF s
  <2> QED BY <1>1, <2>1, <2>2, <2>3 DEF TypeInv, TypeOK, Token
<1>3. tokens' = Append(s, NewToken(l, FALSE)) /\ NewToken(l, FALSE) \in Token
  BY <1>1, NewTokenType DEF Rotate, TypeInv
<1> HIDE DEF s
<1>4. Len(tokens) \in Nat /\ DOMAIN tokens = 1 .. Len(tokens)
  BY DEF TypeInv, TypeOK
<1> DEFINE n == Len(tokens) + 1
<1>5. /\ tokens' \in Seq(Token) /\ Len(tokens') = n /\ DOMAIN tokens' = 1 .. n
      /\ tokens'[n] = NewToken(l, FALSE)
      /\ \A u \in DOMAIN tokens : u # n /\ u \in DOMAIN tokens' /\ tokens'[u] = s[u]
  <2> DEFINE x == NewToken(l, FALSE)
  <2> HIDE DEF x
  <2>1. x \in Token /\ tokens' = Append(s, x)
    BY <1>3 DEF x
  <2>2. s \in Seq(Token) /\ Len(s) = Len(tokens) /\ DOMAIN s = DOMAIN tokens
    BY <1>2
  <2>3. tokens' \in Seq(Token) /\ Len(tokens') = n /\ DOMAIN tokens' = 1 .. n /\ tokens'[n] = x
        /\ \A u \in DOMAIN s : u # n /\ u \in DOMAIN tokens' /\ tokens'[u] = s[u]
    BY <2>1, <2>2, Appended
  <2> QED BY <2>2, <2>3 DEF x
<1>6. Extends(tokens', tokens)
  BY <1>2, <1>4, <1>5 DEF Extends
<1>7. tokens'[t].revoked
      /\ \A u \in DOMAIN tokens : /\ tokens'[u].root = tokens[u].root
                                  /\ u # t => tokens'[u] = tokens[u]
  BY <1>1, <1>2, <1>5
<1> QED BY <1>1, <1>5, <1>6, <1>7

LEMMA ExchangedRows ==
  ASSUME TypeInv, NEW c \in Clis, Exchange(c)
  PROVE  LET l == request[c].login
             n == Len(tokens) + 1
         IN  /\ l \in Logins /\ request[c].read = "approved"
             /\ Extends(tokens', tokens) /\ Len(tokens') = n /\ DOMAIN tokens' = 1 .. n
             /\ tokens'[n] = NewToken(l, TRUE)
             /\ \A u \in DOMAIN tokens : u # n /\ u \in DOMAIN tokens' /\ tokens'[u] = tokens[u]
<1>1. request[c].login \in Logins /\ request[c].read = "approved"
  BY DEF Exchange, TypeInv, RequestOK
<1>2. tokens' = Append(tokens, NewToken(request[c].login, TRUE))
      /\ NewToken(request[c].login, TRUE) \in Token
  BY <1>1, NewTokenType DEF Exchange, TypeInv
<1>3. tokens \in Seq(Token) /\ Len(tokens) \in Nat /\ DOMAIN tokens = 1 .. Len(tokens)
  BY DEF TypeInv, TypeOK
<1> DEFINE n == Len(tokens) + 1
<1>4. /\ tokens' \in Seq(Token) /\ Len(tokens') = n /\ DOMAIN tokens' = 1 .. n
      /\ tokens'[n] = NewToken(request[c].login, TRUE)
      /\ \A u \in DOMAIN tokens : u # n /\ u \in DOMAIN tokens' /\ tokens'[u] = tokens[u]
  <2> DEFINE x == NewToken(request[c].login, TRUE)
  <2> HIDE DEF x
  <2>1. x \in Token /\ tokens' = Append(tokens, x)
    BY <1>2 DEF x
  <2>2. tokens' \in Seq(Token) /\ Len(tokens') = n /\ DOMAIN tokens' = 1 .. n /\ tokens'[n] = x
        /\ \A u \in DOMAIN tokens : u # n /\ u \in DOMAIN tokens' /\ tokens'[u] = tokens[u]
    BY <2>1, <1>3, Appended
  <2> QED BY <2>2 DEF x
<1>5. Extends(tokens', tokens)
  BY <1>3, <1>4 DEF Extends
<1> QED BY <1>1, <1>4, <1>5

LEMMA RevokedRows ==
  ASSUME TypeInv, NEW c \in Clis, Revoke(c)
  PROVE  LET l == request[c].login
             rows == request[c].rows
         IN  /\ l \in Logins /\ request[c].token \in Family(l)
             /\ Extends(tokens', tokens) /\ Len(tokens') = Len(tokens)
             /\ DOMAIN tokens' = DOMAIN tokens
             /\ \A u \in DOMAIN tokens : /\ tokens'[u].root = tokens[u].root
                                         /\ u \in rows => tokens'[u].revoked
                                         /\ u \notin rows => tokens'[u] = tokens[u]
<1> DEFINE rows == request[c].rows
           new(t) == IF t \in rows THEN [tokens[t] EXCEPT !.revoked = TRUE] ELSE tokens[t]
<1>1. request[c].login \in Logins /\ request[c].token \in Family(request[c].login)
  BY DEF Revoke, TypeInv, RequestOK, Family
<1>2. tokens' = [t \in DOMAIN tokens |-> new(t)]
  BY DEF Revoke
<1>3. \A t \in DOMAIN tokens : /\ new(t) \in Token
                               /\ new(t).login = tokens[t].login /\ new(t).root = tokens[t].root
                               /\ t \in rows => new(t).revoked
                               /\ t \notin rows => new(t) = tokens[t]
  <2> TAKE t \in DOMAIN tokens
  <2>1. tokens[t] \in Token
    BY DEF TypeInv, TypeOK
  <2>2. CASE t \in rows
    BY <2>1, <2>2 DEF Token
  <2>3. CASE t \notin rows
    BY <2>1, <2>3
  <2> QED BY <2>2, <2>3
<1> HIDE DEF new
<1>4. DOMAIN tokens = 1 .. Len(tokens) /\ Len(tokens) \in Nat
  BY DEF TypeInv, TypeOK
<1>5. tokens' \in Seq(Token) /\ Len(tokens') = Len(tokens) /\ DOMAIN tokens' = DOMAIN tokens
  BY <1>2, <1>3, <1>4
<1> QED BY <1>1, <1>2, <1>3, <1>4, <1>5 DEF Extends

LEMMA ApiType ==
  ASSUME TypeInv, NEW c \in Clis, Api(c)
  PROVE  TypeInv'
<1> USE DEF TypeInv
<1>1. ASSUME Extends(tokens', tokens), NEW p, CliOK(p, tokens'), Answer(c, p),
             login' \in [Logins -> Login], raced' \subseteq Logins, forked' \subseteq Logins,
             ended' \subseteq Logins, UNCHANGED <<keyring, browser, clock, faults, approved>>
      PROVE  TypeInv'
  <2>1. RequestOK(NoRequest, tokens')
    BY <1>1, NoRequestOK DEF Extends
  <2>2. cli' = cli \/ cli' = [cli EXCEPT ![c] = p]
    BY <1>1 DEF Answer
  <2>3. request' = [request EXCEPT ![c] = NoRequest]
    BY <1>1 DEF Answer, Ask
  <2>4. keyring' \in 0 .. Len(tokens')
    BY <1>1 DEF Extends, TypeOK
  <2>5. tokens' \in Seq(Token)
    BY <1>1 DEF Extends
  <2> QED BY <1>1, <2>1, <2>2, <2>3, <2>4, <2>5, Carried DEF TypeOK
<1>2. ASSUME NEW l \in Logins, NEW n \in Nat \ {0}, n =< Len(tokens')
      PROVE  CliOK([phase |-> "save", login |-> l, token |-> n], tokens')
  BY <1>2 DEF CliOK, Cli, CliPhases
<1>3. CASE Exchange(c)
  <2>1. login' \in [Logins -> Login] /\ raced' \subseteq Logins
    BY <1>3, ExchangedRows, StatusType DEF Exchange, Statuses
  <2>2. CliOK([phase |-> "save", login |-> request[c].login, token |-> Len(tokens) + 1], tokens')
    <3>1. /\ request[c].login \in Logins /\ Len(tokens) + 1 \in Nat \ {0}
          /\ Len(tokens) + 1 =< Len(tokens')
      <4>1. request[c].login \in Logins /\ Len(tokens') = Len(tokens) + 1
        BY <1>3, ExchangedRows
      <4> QED BY <4>1 DEF TypeOK
    <3> QED BY <3>1, <1>2
  <2> QED BY <1>1, <1>3, <2>1, <2>2, ExchangedRows DEF Exchange, TypeOK
<1>4. CASE Expire(c)
  <2>1. request[c].login \in Logins
    BY <1>4 DEF Expire, RequestOK
  <2>2. login' \in [Logins -> Login] /\ raced' \subseteq Logins
    BY <1>4, <2>1, StatusType DEF Expire, Statuses
  <2>3. Extends(tokens', tokens) /\ CliOK(Resting, tokens')
    BY <1>4, ExtendsSelf, RestingOK DEF Expire, TypeOK
  <2> QED BY <1>1, <1>4, <2>2, <2>3 DEF Expire, TypeOK
<1>5. CASE Rotate(c)
  <2>1. CliOK([phase |-> "save", login |-> request[c].login, token |-> Len(tokens) + 1], tokens')
    <3>1. /\ request[c].login \in Logins /\ Len(tokens) + 1 \in Nat \ {0}
          /\ Len(tokens) + 1 =< Len(tokens')
      <4>1. request[c].login \in Logins /\ Len(tokens') = Len(tokens) + 1
        BY <1>5, RotatedRows
      <4> QED BY <4>1 DEF TypeOK
    <3> QED BY <3>1, <1>2
  <2>2. forked' \subseteq Logins
    BY <1>5, RotatedRows DEF Rotate, TypeOK
  <2> QED BY <1>1, <1>5, <2>1, <2>2, RotatedRows DEF Rotate, TypeOK
<1>6. CASE Revoke(c)
  <2>1. request[c].token \in Nat /\ request[c].token =< Len(tokens')
    BY <1>6, RevokedRows DEF Family, TypeOK
  <2>2. CliOK([phase |-> "clear", login |-> None, token |-> request[c].token], tokens')
    BY <2>1 DEF CliOK, Cli, CliPhases
  <2>3. forked' \subseteq Logins /\ ended' \subseteq Logins
    BY <1>6, RevokedRows DEF Revoke, TypeOK
  <2> QED BY <1>1, <1>6, <2>2, <2>3, RevokedRows DEF Revoke, TypeOK
<1> QED BY <1>3, <1>4, <1>5, <1>6 DEF Api

LEMMA BrowserType ==
  ASSUME TypeInv, NEW b \in Browsers, Decide(b) \/ Decided(b)
  PROVE  TypeInv'
<1> USE DEF TypeInv
<1>1. UNCHANGED <<tokens, keyring, cli, request, clock, faults, forked, ended>>
  BY DEF Decide, Decided, history
<1>2. login' \in [Logins -> Login] /\ raced' \subseteq Logins /\ approved' \subseteq Logins
  <2>1. CASE Decide(b)
    BY <2>1 DEF Decide, history, TypeOK
  <2>2. CASE Decided(b)
    <3>1. browser[b].login \in Logins /\ browser[b].phase \in Statuses
      BY <2>2 DEF Decided, BrowserOK, Statuses
    <3>2. approved' \subseteq Logins
      BY <2>2, <3>1 DEF Decided, TypeOK
    <3> QED BY <2>2, <3>1, <3>2, StatusType DEF Decided
  <2> QED BY <2>1, <2>2
<1>3. PICK r : browser' = [browser EXCEPT ![b] = r] /\ BrowserOK(r)
  <2>1. CASE Decide(b)
    <3>1. PICK l \in Logins, phase \in {"approved", "denied", "expired"} :
            /\ browser' = [browser EXCEPT ![b] = [phase |-> phase, login |-> l,
                                                  read |-> login[l].status]]
            /\ login[l].status \in {"pending", "approved"}
      BY <2>1 DEF Decide, Due
    <3>2. BrowserOK([phase |-> phase, login |-> l, read |-> login[l].status])
      BY <3>1 DEF BrowserOK, Browser, Statuses
    <3> QED BY <3>1, <3>2
  <2>2. CASE Decided(b)
    <3>1. BrowserOK([browser[b] EXCEPT !.phase = "done"])
      BY DEF BrowserOK, Browser
    <3>2. browser' = [browser EXCEPT ![b] = [browser[b] EXCEPT !.phase = "done"]]
      BY <2>2 DEF Decided, TypeOK
    <3> QED BY <3>1, <3>2
  <2> QED BY <2>1, <2>2
<1>4. \A d \in Browsers : BrowserOK(browser'[d])
  BY <1>3 DEF TypeOK
<1>5. browser' \in [Browsers -> Browser]
  BY <1>3, <1>4 DEF TypeOK, BrowserOK
<1> QED BY <1>1, <1>2, <1>4, <1>5 DEF TypeOK

LEMMA NextType == TypeInv /\ [Next]_vars => TypeInv'
<1> SUFFICES ASSUME TypeInv, [Next]_vars PROVE TypeInv'
  OBVIOUS
<1>1. CASE \E c \in Clis : Command(c) \/ Client(c) \/ Api(c) \/ NoAnswer(c) \/ Killed(c)
  BY <1>1, CommandType, ClientType, ApiType, FaultType
<1>2. CASE \E b \in Browsers : Decide(b) \/ Decided(b)
  BY <1>2, BrowserType
<1>3. CASE Tick
  BY <1>3 DEF Tick, TypeInv, TypeOK, server, history
<1>4. CASE UNCHANGED vars
  BY <1>4 DEF vars, TypeInv, TypeOK
<1> QED BY <1>1, <1>2, <1>3, <1>4 DEF Next

LEMMA TypeInvHolds == Spec => []TypeInv
<1> QED BY InitType, NextType, PTL DEF Spec

(* TypeOK, in every reachable state: the rows of logins and tokens, and the  *)
(* processes, requests and browser that refer to them, have their type.      *)
THEOREM CliAuthTypeCorrect == Spec => []TypeOK
<1>1. TypeInv => TypeOK
  BY DEF TypeInv
<1> QED BY <1>1, TypeInvHolds, PTL

-----------------------------------------------------------------------------
(* The code of a login is in the hands of the process that obtained it, from *)
(* "start" to the end of its last poll, and of no other; it gives a token    *)
(* only then.                                                                *)
RootsIn(rows, l) == {t \in DOMAIN rows : rows[t].login = l /\ rows[t].root}

Holds(p, q, l) ==
  \/ p.phase = "login" /\ p.login = l
  \/ q.phase \in {"exchange", "expire"} /\ q.login = l

(* A process polls again only when it has had the answer. *)
Paired(p, q) ==
  /\ p.phase = "login" => q.phase = "none"
  /\ p.phase = "polling" => q.phase \in {"exchange", "expire"} /\ q.login = p.login /\ ~q.lost

Fresh(l) == RootsIn(tokens, l) = {}

CodeInv ==
  /\ \A c \in Clis : Paired(cli[c], request[c])
  /\ \A c, d \in Clis : \A l \in Logins :
       Holds(cli[c], request[c], l) /\ Holds(cli[d], request[d], l) => c = d
  /\ \A c \in Clis : \A l \in Logins :
       Holds(cli[c], request[c], l) => login[l].status # "none" /\ Fresh(l)
  /\ \A l \in Logins : login[l].status = "none" => Fresh(l)

LEMMA LoginsOfRows ==
  ASSUME TypeInv
  PROVE  /\ ended \subseteq Logins
         /\ \A t \in DOMAIN tokens : tokens[t].login \in Logins
         /\ Len(tokens) \in Nat /\ DOMAIN tokens = 1 .. Len(tokens)
<1>1. \A t \in DOMAIN tokens : tokens[t] \in Token
  BY DEF TypeInv, TypeOK
<1> QED BY <1>1 DEF TypeInv, TypeOK, Token

LEMMA CodeInit == Init => CodeInv
BY DEF Init, CodeInv, Paired, Holds, Fresh, RootsIn, Resting, NoRequest

(* A step of a process that takes no code on, and no token of a code. *)
LEMMA CodeKept ==
  ASSUME TypeInv, CodeInv, NEW c \in Clis,
         \A d \in Clis : d # c => cli'[d] = cli[d] /\ request'[d] = request[d],
         NEW p, NEW q, cli'[c] = p, request'[c] = q, Paired(p, q),
         \A l \in Logins : Holds(p, q, l) => Holds(cli[c], request[c], l),
         \A l \in Logins : RootsIn(tokens', l) = RootsIn(tokens, l),
         \A l \in Logins : login'[l].status = "none" => login[l].status = "none"
  PROVE  CodeInv'
<1>1. \A d \in Clis : Paired(cli'[d], request'[d])
  BY DEF CodeInv
<1>2. \A d \in Clis : \A l \in Logins :
        Holds(cli'[d], request'[d], l) => Holds(cli[d], request[d], l)
  OBVIOUS
<1>3. \A l \in Logins : RootsIn(tokens, l) = {} => RootsIn(tokens', l) = {}
  OBVIOUS
<1> QED BY <1>1, <1>2, <1>3 DEF CodeInv, Fresh

LEMMA CodeSame ==
  ASSUME CodeInv, UNCHANGED <<login, tokens, cli, request>>
  PROVE  CodeInv'
BY DEF CodeInv, Fresh

(* A change of status never undoes the insert of the row. *)
LEMMA StatusKeepsRow ==
  ASSUME TypeInv, NEW l \in Logins, NEW read, NEW status, status # "none",
         SetStatus(l, read, status)
  PROVE  \A k \in Logins : login'[k].status = "none" => login[k].status = "none"
<1>1. login' = [login EXCEPT ![l].status = status] /\ login \in [Logins -> Login]
  BY DEF SetStatus, TypeInv, TypeOK
<1>2. login'[l].status = status
  BY <1>1 DEF Login
<1>3. \A k \in Logins : k # l => login'[k] = login[k]
  BY <1>1
<1> QED BY <1>2, <1>3

LEMMA StartKeepsCode ==
  ASSUME TypeInv, CodeInv, NEW c \in Clis, Start(c)
  PROVE  CodeInv'
<1> DEFINE row == [status |-> "pending", expires |-> clock + CodeTtl]
           p(l) == [phase |-> "login", login |-> l, token |-> 0]
<1>1. PICK l \in Logins : /\ login[l].status = "none" /\ login' = [login EXCEPT ![l] = row]
                          /\ cli' = [cli EXCEPT ![c] = p(l)]
  BY DEF Start, SetCli
<1>2. request[c].phase = "none" /\ UNCHANGED <<request, tokens>>
  BY DEF Start
<1>3. /\ \A d \in Clis : cli'[d] = (IF d = c THEN p(l) ELSE cli[d])
      /\ \A k \in Logins : login'[k] = (IF k = l THEN row ELSE login[k])
  BY <1>1 DEF TypeInv, TypeOK
<1>4. \A d \in Clis : ~Holds(cli[d], request[d], l)
  BY <1>1 DEF CodeInv
<1>5. \A k \in Logins : Holds(p(l), request[c], k) <=> k = l
  BY <1>2 DEF Holds
<1>6. Paired(p(l), request[c]) /\ p(l).phase = "login"
  BY <1>2 DEF Paired
<1>7. \A d \in Clis : \A k \in Logins :
        Holds(cli'[d], request'[d], k) <=>
          IF d = c THEN k = l ELSE Holds(cli[d], request[d], k)
  BY <1>2, <1>3, <1>5
<1>8. row.status = "pending" /\ Fresh(l) /\ \A k : Fresh(k)' <=> Fresh(k)
  BY <1>1, <1>2 DEF Fresh, CodeInv
<1> HIDE DEF row, p
<1>9. \A d \in Clis : Paired(cli'[d], request'[d])
  BY <1>2, <1>3, <1>6 DEF CodeInv
<1>10. \A d, e \in Clis : \A k \in Logins :
         Holds(cli'[d], request'[d], k) /\ Holds(cli'[e], request'[e], k) => d = e
  BY <1>4, <1>7 DEF CodeInv
<1>11. \A d \in Clis : \A k \in Logins :
         Holds(cli'[d], request'[d], k) => login'[k].status # "none" /\ Fresh(k)'
  BY <1>3, <1>7, <1>8 DEF CodeInv
<1>12. \A k \in Logins : login'[k].status = "none" => Fresh(k)'
  BY <1>3, <1>8 DEF CodeInv
<1> QED BY <1>9, <1>10, <1>11, <1>12 DEF CodeInv

LEMMA ExchangeKeepsCode ==
  ASSUME TypeInv, CodeInv, NEW c \in Clis, Exchange(c)
  PROVE  CodeInv'
<1> DEFINE l == request[c].login
           n == Len(tokens) + 1
<1>1. /\ l \in Logins
      /\ DOMAIN tokens' = 1 .. n
      /\ tokens'[n] = NewToken(l, TRUE)
      /\ \A u \in DOMAIN tokens : u # n /\ u \in DOMAIN tokens' /\ tokens'[u] = tokens[u]
  BY ExchangedRows
<1>2. \A k \in Logins : k # l => RootsIn(tokens', k) = RootsIn(tokens, k)
  <2>1. DOMAIN tokens' = DOMAIN tokens \cup {n} /\ tokens'[n].login = l
    BY <1>1, LoginsOfRows DEF NewToken
  <2> HIDE DEF n
  <2> QED BY <1>1, <2>1 DEF RootsIn
<1>3. PICK p : /\ p.phase \notin {"login", "polling"}
               /\ \A d \in Clis : /\ cli'[d] = (IF d = c THEN p ELSE cli[d])
                                  /\ request'[d] = (IF d = c THEN NoRequest ELSE request[d])
  <2>1. request' = [request EXCEPT ![c] = NoRequest] /\ request[c].phase = "exchange"
    BY DEF Exchange, Answer, Ask
  <2>2. CASE request[c].lost
    <3>1. cli' = cli
      BY <2>2 DEF Exchange, Answer
    <3>2. cli[c].phase \notin {"login", "polling"}
      BY <2>1, <2>2 DEF CodeInv, Paired
    <3> QED BY <2>1, <3>1, <3>2 DEF TypeInv, TypeOK
  <2>3. CASE ~request[c].lost
    <3> DEFINE p == [phase |-> "save", login |-> l, token |-> n]
    <3>1. cli' = [cli EXCEPT ![c] = p] /\ p.phase = "save"
      BY <2>3 DEF Exchange, Answer
    <3> HIDE DEF p
    <3> QED BY <2>1, <3>1 DEF TypeInv, TypeOK
  <2> QED BY <2>2, <2>3
<1>4. \A k : ~Holds(p, NoRequest, k)
  BY <1>3 DEF Holds, NoRequest
<1>5. \A d \in Clis : \A k \in Logins :
        Holds(cli'[d], request'[d], k) => d # c /\ Holds(cli[d], request[d], k)
  BY <1>3, <1>4
<1>6. Holds(cli[c], request[c], l)
  BY DEF Exchange, Holds
<1>7. \A d \in Clis : \A k \in Logins : Holds(cli'[d], request'[d], k) => k # l
  BY <1>1, <1>5, <1>6 DEF CodeInv
<1>8. \A k \in Logins : login'[k].status = "none" => login[k].status = "none" /\ k # l
  <2>1. SetStatus(l, request[c].read, "consumed")
    BY DEF Exchange
  <2>2. login' = [login EXCEPT ![l].status = "consumed"] /\ login \in [Logins -> Login]
    BY <2>1 DEF SetStatus, TypeInv, TypeOK
  <2>3. login'[l].status = "consumed" /\ \A k \in Logins : k # l => login'[k] = login[k]
    BY <1>1, <2>2 DEF Login
  <2> QED BY <2>3
<1>9. Paired(p, NoRequest)
  BY <1>3 DEF Paired
<1>10. \A d \in Clis : Paired(cli'[d], request'[d])
  BY <1>3, <1>9 DEF CodeInv
<1> HIDE DEF l, n
<1>11. \A k \in Logins : k # l => (Fresh(k)' <=> Fresh(k))
  BY <1>2 DEF Fresh
<1>12. \A d \in Clis : \A k \in Logins :
         Holds(cli'[d], request'[d], k) => login'[k].status # "none" /\ Fresh(k)'
  BY <1>5, <1>7, <1>8, <1>11 DEF CodeInv
<1> QED BY <1>5, <1>8, <1>10, <1>11, <1>12 DEF CodeInv

(* The other steps of a process or of its request. *)
LEMMA ProcessKeepsCode ==
  ASSUME TypeInv, CodeInv, NEW c \in Clis, Refresh(c) \/ Logout(c) \/ Client(c)
  PROVE  CodeInv'
<1>0. UNCHANGED <<login, tokens>> /\ cli[c] \in Cli /\ request[c] \in Request
  BY DEF Refresh, Logout, Client, Poll, LoginTimesOut, SendRefresh, SendLogout, Save, Clear,
         server, TypeInv, TypeOK
<1>1. Paired(cli[c], request[c])
  BY DEF CodeInv
<1>2. PICK p, q :
        /\ cli' = [cli EXCEPT ![c] = p]
        /\ \/ request' = request /\ q = request[c]
           \/ request' = [request EXCEPT ![c] = q]
        /\ Paired(p, q)
        /\ \A l \in Logins : Holds(p, q, l) => Holds(cli[c], request[c], l)
  <2>1. ASSUME NEW p, cli' = [cli EXCEPT ![c] = p], request' = request,
               p.phase \notin {"login", "polling"}
        PROVE  /\ Paired(p, request[c])
               /\ \A l \in Logins : Holds(p, request[c], l) => Holds(cli[c], request[c], l)
    BY <2>1 DEF Paired, Holds
  <2>2. ASSUME NEW p, NEW q, p.phase \notin {"login", "polling"},
               q.phase \notin {"exchange", "expire"}
        PROVE  Paired(p, q) /\ \A l \in Logins : ~Holds(p, q, l)
    BY <2>2 DEF Paired, Holds
  <2>3. CASE Poll(c)
    <3> DEFINE l == cli[c].login
               s == login[l].status
               polling == [cli[c] EXCEPT !.phase = "polling"]
               asked(phase) == [NoRequest EXCEPT !.phase = phase, !.login = l, !.read = s]
    <3>1. cli[c].phase = "login" /\ polling.phase = "polling" /\ polling.login = l
      BY <1>0, <2>3 DEF Poll, Cli
    <3>2. ASSUME NEW phase \in {"exchange", "expire"}
          PROVE  /\ Paired(polling, asked(phase))
                 /\ \A k \in Logins : Holds(polling, asked(phase), k) => Holds(cli[c], request[c], k)
      BY <3>1 DEF Paired, Holds, NoRequest
    <3>3. CASE cli' = [cli EXCEPT ![c] = Resting] /\ UNCHANGED request
      BY <2>1, <3>3 DEF Resting
    <3>4. CASE \E phase \in {"exchange", "expire"} :
                 cli' = [cli EXCEPT ![c] = polling] /\ request' = [request EXCEPT ![c] = asked(phase)]
      <4>1. PICK phase \in {"exchange", "expire"} :
              cli' = [cli EXCEPT ![c] = polling] /\ request' = [request EXCEPT ![c] = asked(phase)]
        BY <3>4
      <4>2. PICK p, q :
              /\ cli' = [cli EXCEPT ![c] = p] /\ request' = [request EXCEPT ![c] = q]
              /\ Paired(p, q)
              /\ \A k \in Logins : Holds(p, q, k) => Holds(cli[c], request[c], k)
        <5> HIDE DEF polling, asked
        <5> QED BY <3>2, <4>1
      <4> QED BY <4>2
    <3> QED BY <2>3, <3>3, <3>4 DEF Poll, SetCli, Ask
  <2>4. CASE Refresh(c) \/ Logout(c)
    <3>1. PICK phase \in {"refresh", "logout"} :
            cli' = [cli EXCEPT ![c] = [phase |-> phase, login |-> None, token |-> keyring]]
      BY <2>4 DEF Refresh, Logout, SetCli
    <3>2. request' = request
      BY <2>4 DEF Refresh, Logout
    <3> QED BY <2>1, <3>1, <3>2
  <2>5. CASE LoginTimesOut(c) \/ Save(c) \/ Clear(c)
    <3>1. \/ cli' = [cli EXCEPT ![c] = Resting]
          \/ cli' = [cli EXCEPT ![c] = [phase |-> "clear", login |-> None, token |-> cli[c].token]]
      BY <2>5 DEF LoginTimesOut, Save, Clear, SetCli
    <3>2. request' = request
      BY <2>5 DEF LoginTimesOut, Save, Clear
    <3> QED BY <2>1, <3>1, <3>2 DEF Resting
  <2>6. CASE SendRefresh(c)
    <3> DEFINE t == cli[c].token
               asked == [NoRequest EXCEPT !.phase = "rotate", !.login = tokens[t].login, !.token = t]
               p(phase) == [cli[c] EXCEPT !.phase = phase]
    <3>1. p("refreshing").phase = "refreshing" /\ p("clear").phase = "clear" /\ asked.phase = "rotate"
      BY <1>0 DEF Cli, NoRequest
    <3>2. \/ cli' = [cli EXCEPT ![c] = p("refreshing")] /\ request' = [request EXCEPT ![c] = asked]
          \/ cli' = [cli EXCEPT ![c] = p("clear")] /\ request' = request
      BY <2>6 DEF SendRefresh, SetCli, Ask
    <3> HIDE DEF asked, p
    <3> QED BY <2>1, <2>2, <3>1, <3>2
  <2>7. CASE SendLogout(c)
    <3> DEFINE t == cli[c].token
               asked == [NoRequest EXCEPT !.phase = "revoke", !.login = tokens[t].login, !.token = t,
                                          !.rows = {u \in Family(tokens[t].login) : Live(u)}]
               p == [cli[c] EXCEPT !.phase = "leaving"]
    <3>1. p.phase = "leaving" /\ asked.phase = "revoke"
      BY <1>0 DEF Cli, NoRequest
    <3>2. cli' = [cli EXCEPT ![c] = p] /\ request' = [request EXCEPT ![c] = asked]
      BY <2>7 DEF SendLogout, SetCli, Ask
    <3> HIDE DEF asked, p
    <3>3. Paired(p, asked) /\ \A l \in Logins : Holds(p, asked, l) => Holds(cli[c], request[c], l)
      BY <2>2, <3>1
    <3> QED BY <3>2, <3>3
  <2> QED BY <2>3, <2>4, <2>5, <2>6, <2>7 DEF Client
<1>3. /\ \A d \in Clis : d # c => cli'[d] = cli[d] /\ request'[d] = request[d]
      /\ cli'[c] = p /\ request'[c] = q
  BY <1>2 DEF TypeInv, TypeOK
<1> QED BY <1>0, <1>2, <1>3, CodeKept

LEMMA FaultKeepsCode ==
  ASSUME TypeInv, CodeInv, NEW c \in Clis, NoAnswer(c) \/ Killed(c)
  PROVE  CodeInv'
<1> DEFINE q == request[c]
           lost(b) == [q EXCEPT !.lost = b]
           clear == [cli[c] EXCEPT !.phase = "clear"]
<1>1. cli[c] \in Cli /\ q \in Request
  BY DEF TypeInv, TypeOK
<1>2. \A b : lost(b).phase = q.phase /\ lost(b).login = q.login
  BY <1>1 DEF Request
<1>3. clear.phase = "clear" /\ Resting.phase = "idle"
  BY <1>1 DEF Cli, Resting
<1>4. ASSUME NEW p \in {Resting, clear}, NEW b
      PROVE  /\ Paired(p, lost(b))
             /\ \A l \in Logins : Holds(p, lost(b), l) => Holds(cli[c], q, l)
  <2> HIDE DEF clear, lost
  <2> QED BY <1>2, <1>3, <1>4 DEF Paired, Holds
<1>5. PICK p \in {Resting, clear}, b \in BOOLEAN :
        cli' = [cli EXCEPT ![c] = p] /\ request' = [request EXCEPT ![c] = lost(b)]
  BY DEF NoAnswer, Killed, SetCli, TypeInv, TypeOK
<1>6. UNCHANGED <<login, tokens>>
  BY DEF NoAnswer, Killed, server
<1> HIDE DEF lost, clear
<1>7. /\ \A d \in Clis : d # c => cli'[d] = cli[d] /\ request'[d] = request[d]
      /\ cli'[c] = p /\ request'[c] = lost(b)
  BY <1>5 DEF TypeInv, TypeOK
<1> QED BY <1>4, <1>6, <1>7, CodeKept

LEMMA AnswerKeepsCode ==
  ASSUME TypeInv, CodeInv, NEW c \in Clis, Expire(c) \/ Rotate(c) \/ Revoke(c)
  PROVE  CodeInv'
<1>1. PICK p : /\ p.phase \notin {"login", "polling"}
               /\ \A d \in Clis : /\ cli'[d] = (IF d = c THEN p ELSE cli[d])
                                  /\ request'[d] = (IF d = c THEN NoRequest ELSE request[d])
  <2>1. PICK r : Answer(c, r) /\ r.phase \in {"idle", "save", "clear"}
    <3> DEFINE save == [phase |-> "save", login |-> request[c].login, token |-> Len(tokens) + 1]
               clear == [phase |-> "clear", login |-> None, token |-> request[c].token]
    <3>1. Resting.phase = "idle" /\ save.phase = "save" /\ clear.phase = "clear"
      BY DEF Resting
    <3>2. Answer(c, Resting) \/ Answer(c, save) \/ Answer(c, clear)
      BY DEF Expire, Rotate, Revoke
    <3> HIDE DEF save, clear
    <3> QED BY <3>1, <3>2
  <2>2. request' = [request EXCEPT ![c] = NoRequest] /\ request[c].phase # "none"
    BY <2>1 DEF Answer, Ask, Expire, Rotate, Revoke
  <2>3. CASE request[c].lost
    <3>1. cli' = cli
      BY <2>1, <2>3 DEF Answer
    <3>2. cli[c].phase \notin {"login", "polling"}
      BY <2>2, <2>3 DEF CodeInv, Paired
    <3> QED BY <2>2, <3>1, <3>2 DEF TypeInv, TypeOK
  <2>4. CASE ~request[c].lost
    <3>1. cli' = [cli EXCEPT ![c] = r]
      BY <2>1, <2>4 DEF Answer
    <3> QED BY <2>1, <2>2, <3>1 DEF TypeInv, TypeOK
  <2> QED BY <2>3, <2>4
<1>2. Paired(p, NoRequest) /\ \A l \in Logins : ~Holds(p, NoRequest, l)
  BY <1>1 DEF Paired, Holds, NoRequest
<1>3. \A l \in Logins : RootsIn(tokens', l) = RootsIn(tokens, l)
  <2>1. CASE Expire(c)
    BY <2>1 DEF Expire
  <2>2. CASE Rotate(c)
    <3> DEFINE n == Len(tokens) + 1
    <3>1. /\ Extends(tokens', tokens) /\ DOMAIN tokens' = 1 .. n
          /\ tokens'[n] = NewToken(request[c].login, FALSE)
          /\ \A u \in DOMAIN tokens : u # n /\ u \in DOMAIN tokens' /\ tokens'[u].root = tokens[u].root
      BY <2>2, RotatedRows
    <3>2. DOMAIN tokens' = DOMAIN tokens \cup {n} /\ ~tokens'[n].root
      BY <3>1, LoginsOfRows DEF NewToken
    <3> HIDE DEF n
    <3> QED BY <3>1, <3>2 DEF RootsIn, Extends
  <2>3. CASE Revoke(c)
    <3>1. /\ Extends(tokens', tokens) /\ DOMAIN tokens' = DOMAIN tokens
          /\ \A u \in DOMAIN tokens : tokens'[u].root = tokens[u].root
      BY <2>3, RevokedRows
    <3> QED BY <3>1 DEF RootsIn, Extends
  <2> QED BY <2>1, <2>2, <2>3
<1>4. \A l \in Logins : login'[l].status = "none" => login[l].status = "none"
  <2>1. CASE Expire(c)
    <3>1. request[c].login \in Logins
      BY <2>1 DEF Expire, TypeInv, RequestOK
    <3> QED BY <2>1, <3>1, StatusKeepsRow DEF Expire
  <2>2. CASE Rotate(c) \/ Revoke(c)
    BY <2>2 DEF Rotate, Revoke
  <2> QED BY <2>1, <2>2
<1>5. /\ \A d \in Clis : d # c => cli'[d] = cli[d] /\ request'[d] = request[d]
      /\ cli'[c] = p /\ request'[c] = NoRequest
  BY <1>1
<1>6. \A l \in Logins : Holds(p, NoRequest, l) => Holds(cli[c], request[c], l)
  BY <1>2
<1> QED BY <1>2, <1>3, <1>4, <1>5, <1>6, CodeKept

LEMMA CodeNext == TypeInv /\ CodeInv /\ [Next]_vars => CodeInv'
<1> SUFFICES ASSUME TypeInv, CodeInv, [Next]_vars PROVE CodeInv'
  OBVIOUS
<1>1. ASSUME NEW c \in Clis, Command(c) \/ Client(c) \/ Api(c) \/ NoAnswer(c) \/ Killed(c)
      PROVE  CodeInv'
  BY <1>1, StartKeepsCode, ExchangeKeepsCode, ProcessKeepsCode, FaultKeepsCode, AnswerKeepsCode
     DEF Command, Api
<1>2. ASSUME NEW b \in Browsers, Decide(b) \/ Decided(b) PROVE CodeInv'
  <2>1. UNCHANGED <<tokens, cli, request>>
    BY <1>2 DEF Decide, Decided
  <2>2. \A l \in Logins : login'[l].status = "none" => login[l].status = "none"
    <3>1. CASE Decide(b)
      BY <3>1 DEF Decide
    <3>2. CASE Decided(b)
      <4>1. browser[b].login \in Logins /\ browser[b].phase # "none"
        BY <3>2 DEF Decided, TypeInv, BrowserOK
      <4> QED BY <3>2, <4>1, StatusKeepsRow DEF Decided
    <3> QED BY <1>2, <3>1, <3>2
  <2> QED BY <2>1, <2>2 DEF CodeInv, Fresh
<1>3. CASE Tick \/ UNCHANGED vars
  BY <1>3, CodeSame DEF Tick, vars, server
<1> QED BY <1>1, <1>2, <1>3 DEF Next

-----------------------------------------------------------------------------
(* Logins and their tokens.  Every token comes from an exchange of its code; *)
(* what a change of tokens relied on is stated for the logins whose tokens   *)
(* were what their writers had read.                                         *)
FamilyIn(rows, l) == {t \in DOMAIN rows : rows[t].login = l}
LiveIn(rows, l) == {t \in DOMAIN rows : rows[t].login = l /\ ~rows[t].revoked}

Rooted ==
  /\ \A t \in DOMAIN tokens : RootsIn(tokens, tokens[t].login) # {}
  /\ \A l \in ended : FamilyIn(tokens, l) # {}

RootsOnce ==
  \A l \in Logins :
    /\ \A t, u \in RootsIn(tokens, l) : t = u
    /\ login[l].status = "consumed" => RootsIn(tokens, l) # {}
    /\ RootsIn(tokens, l) # {} => login[l].status = "consumed" \/ l \in raced

LiveOnce ==
  \A l \in Logins \ forked :
    /\ \A t, u \in LiveIn(tokens, l) : t = u
    /\ l \in ended => LiveIn(tokens, l) = {}

LoginInv == Rooted /\ RootsOnce /\ LiveOnce

LEMMA LoginInit == Init => LoginInv
BY DEF Init, LoginInv, Rooted, RootsOnce, LiveOnce, RootsIn, FamilyIn, LiveIn

(* A step that leaves the rows and the history alone. *)
LEMMA LoginSame ==
  ASSUME LoginInv, UNCHANGED <<login, tokens, history>>
  PROVE  LoginInv'
BY DEF LoginInv, Rooted, RootsOnce, LiveOnce, history

(* A status that was not final gives way to one that is not "consumed"; a    *)
(* login without a status has no token.                                      *)
LEMMA StatusKeepsLogin ==
  ASSUME TypeInv, LoginInv, UNCHANGED <<tokens, forked, ended>>,
         NEW l \in Logins, NEW read \in {"none", "pending", "approved"},
         NEW row \in Login, row.status # "consumed", login' = [login EXCEPT ![l] = row],
         raced' = IF login[l].status = read THEN raced ELSE raced \cup {l}
  PROVE  LoginInv'
<1>1. RootsOnce'
  <2> SUFFICES ASSUME NEW k \in Logins
               PROVE  /\ \A t, u \in RootsIn(tokens, k) : t = u
                      /\ login'[k].status = "consumed" => RootsIn(tokens, k) # {}
                      /\ RootsIn(tokens, k) # {} => login'[k].status = "consumed" \/ k \in raced'
    BY DEF RootsOnce
  <2>1. /\ \A t, u \in RootsIn(tokens, k) : t = u
        /\ login[k].status = "consumed" => RootsIn(tokens, k) # {}
        /\ RootsIn(tokens, k) # {} => login[k].status = "consumed" \/ k \in raced
    BY DEF LoginInv, RootsOnce
  <2>2. CASE k = l
    <3>1. login'[l] = row /\ (l \in raced' <=> l \in raced \/ login[l].status # read)
      BY <2>2 DEF TypeInv, TypeOK
    <3> QED BY <2>1, <2>2, <3>1
  <2>3. CASE k # l
    <3>1. login'[k] = login[k] /\ (k \in raced => k \in raced')
      BY <2>3 DEF TypeInv, TypeOK
    <3> QED BY <2>1, <3>1
  <2> QED BY <2>2, <2>3
<1>2. Rooted' /\ LiveOnce'
  BY DEF LoginInv, LiveOnce, Rooted
<1> QED BY <1>1, <1>2 DEF LoginInv

LEMMA SetStatusKeeps ==
  ASSUME TypeInv, LoginInv, UNCHANGED <<tokens, forked, ended>>,
         NEW l \in Logins, NEW read \in {"pending", "approved"},
         NEW status \in Statuses \ {"consumed"}, SetStatus(l, read, status)
  PROVE  LoginInv'
<1> DEFINE row == [login[l] EXCEPT !.status = status]
<1>1. row \in Login /\ row.status = status
  BY DEF TypeInv, TypeOK, Login
<1>2. login' = [login EXCEPT ![l] = row]
      /\ raced' = IF login[l].status = read THEN raced ELSE raced \cup {l}
  BY DEF SetStatus, TypeInv, TypeOK
<1>3. row \in Login /\ row.status # "consumed" /\ read \in {"none", "pending", "approved"}
  BY <1>1
<1>4. UNCHANGED <<tokens, forked, ended>>
  OBVIOUS
<1> HIDE DEF row
<1> QED BY <1>2, <1>3, <1>4, StatusKeepsLogin

LEMMA StartKeeps ==
  ASSUME TypeInv, LoginInv, NEW c \in Clis, Start(c)
  PROVE  LoginInv'
<1> DEFINE row == [status |-> "pending", expires |-> clock + CodeTtl]
<1>1. PICK l \in Logins : login[l].status = "none" /\ login' = [login EXCEPT ![l] = row]
  BY DEF Start
<1>2. row \in Login /\ row.status # "consumed"
  BY TtlAssumption DEF TypeInv, TypeOK, Login, Statuses
<1>3. UNCHANGED <<tokens, raced, forked, ended>>
  BY DEF Start, history
<1> HIDE DEF row
<1> QED BY <1>1, <1>2, <1>3, StatusKeepsLogin

LEMMA ExchangeKeeps ==
  ASSUME TypeInv, CodeInv, LoginInv, NEW c \in Clis, Exchange(c)
  PROVE  LoginInv'
<1> DEFINE l == request[c].login
           n == Len(tokens) + 1
<1>1. /\ l \in Logins
      /\ DOMAIN tokens' = 1 .. n
      /\ tokens'[n] = NewToken(l, TRUE)
      /\ \A u \in DOMAIN tokens : u # n /\ u \in DOMAIN tokens' /\ tokens'[u] = tokens[u]
  BY ExchangedRows
<1>2. /\ login' = [login EXCEPT ![l].status = "consumed"]
      /\ raced' = IF login[l].status = "approved" THEN raced ELSE raced \cup {l}
      /\ UNCHANGED <<forked, ended>>
  BY ExchangedRows DEF Exchange, SetStatus
<1>3. /\ tokens'[n].login = l /\ tokens'[n].root /\ ~tokens'[n].revoked
      /\ n \notin DOMAIN tokens
  BY <1>1 DEF NewToken
<1>4. DOMAIN tokens' = DOMAIN tokens \cup {n}
  BY <1>1, LoginsOfRows
<1> HIDE DEF n
<1>5. \A k : k # l => /\ FamilyIn(tokens', k) = FamilyIn(tokens, k)
                      /\ RootsIn(tokens', k) = RootsIn(tokens, k)
                      /\ LiveIn(tokens', k) = LiveIn(tokens, k)
  BY <1>1, <1>3, <1>4 DEF FamilyIn, RootsIn, LiveIn
<1>6. /\ FamilyIn(tokens', l) = FamilyIn(tokens, l) \cup {n}
      /\ RootsIn(tokens', l) = RootsIn(tokens, l) \cup {n}
      /\ LiveIn(tokens', l) = LiveIn(tokens, l) \cup {n}
  BY <1>1, <1>3, <1>4 DEF FamilyIn, RootsIn, LiveIn
<1>7. RootsIn(tokens, l) = {}
  BY <1>1 DEF Exchange, CodeInv, Holds, Fresh
<1>8. FamilyIn(tokens, l) = {} /\ l \notin ended
  BY <1>7 DEF LoginInv, Rooted, FamilyIn
<1>9. Rooted'
  <2>1. ASSUME NEW t \in DOMAIN tokens' PROVE RootsIn(tokens', tokens'[t].login) # {}
    <3>1. CASE t = n
      BY <3>1, <1>3, <1>6
    <3>2. CASE t \in DOMAIN tokens
      <4>1. RootsIn(tokens, tokens[t].login) # {} /\ tokens'[t] = tokens[t]
        BY <3>2, <1>1 DEF LoginInv, Rooted
      <4> QED BY <4>1, <1>5, <1>6
    <3> QED BY <3>1, <3>2, <1>4
  <2>2. ASSUME NEW k \in ended' PROVE FamilyIn(tokens', k) # {}
    BY <1>2, <1>5, <1>6 DEF LoginInv, Rooted
  <2> QED BY <2>1, <2>2 DEF Rooted
<1>10. RootsOnce'
  <2> SUFFICES ASSUME NEW k \in Logins
               PROVE  /\ \A t, u \in RootsIn(tokens', k) : t = u
                      /\ login'[k].status = "consumed" => RootsIn(tokens', k) # {}
                      /\ RootsIn(tokens', k) # {} => login'[k].status = "consumed" \/ k \in raced'
    BY DEF RootsOnce
  <2>1. CASE k = l
    <3>1. login'[l].status = "consumed"
      BY <1>1, <1>2 DEF TypeInv, TypeOK, Login
    <3>2. RootsIn(tokens', l) = {n}
      BY <2>1, <1>6, <1>7
    <3> QED BY <2>1, <3>1, <3>2
  <2>2. CASE k # l
    <3>1. login'[k] = login[k] /\ (k \in raced => k \in raced')
      BY <2>2, <1>2 DEF TypeInv, TypeOK
    <3>2. RootsIn(tokens', k) = RootsIn(tokens, k)
      BY <2>2, <1>5
    <3> QED BY <3>1, <3>2 DEF LoginInv, RootsOnce
  <2> QED BY <2>1, <2>2
<1>11. LiveOnce'
  <2> SUFFICES ASSUME NEW k \in Logins \ forked'
               PROVE  /\ \A t, u \in LiveIn(tokens', k) : t = u
                      /\ k \in ended' => LiveIn(tokens', k) = {}
    BY DEF LiveOnce
  <2>1. CASE k = l
    <3>1. LiveIn(tokens, l) = {} /\ l \notin ended'
      BY <2>1, <1>2, <1>8 DEF LiveIn, FamilyIn
    <3>2. LiveIn(tokens', l) = {n}
      BY <3>1, <1>6
    <3> QED BY <2>1, <3>1, <3>2
  <2>2. CASE k # l
    <3>1. LiveIn(tokens', k) = LiveIn(tokens, k) /\ k \in Logins \ forked
      BY <2>2, <1>2, <1>5
    <3> QED BY <3>1, <1>2 DEF LoginInv, LiveOnce
  <2> QED BY <2>1, <2>2
<1> QED BY <1>9, <1>10, <1>11 DEF LoginInv

LEMMA RotateKeeps ==
  ASSUME TypeInv, LoginInv, NEW c \in Clis, Rotate(c)
  PROVE  LoginInv'
<1> DEFINE v == request[c].token
           l == request[c].login
           n == Len(tokens) + 1
<1>1. /\ v \in DOMAIN tokens /\ tokens[v].login = l /\ l \in Logins
      /\ Extends(tokens', tokens) /\ DOMAIN tokens' = 1 .. n
      /\ tokens'[n] = NewToken(l, FALSE)
      /\ \A u \in DOMAIN tokens : /\ u # n /\ u \in DOMAIN tokens'
                                  /\ tokens'[u].root = tokens[u].root
                                  /\ u # v => tokens'[u] = tokens[u]
      /\ tokens'[v].revoked
  BY RotatedRows
<1>2. /\ forked' = IF Live(v) THEN forked ELSE forked \cup {l}
      /\ UNCHANGED <<login, raced, ended>>
  BY DEF Rotate
<1>3. tokens'[n].login = l /\ ~tokens'[n].root /\ n \notin DOMAIN tokens
      /\ \A u \in DOMAIN tokens : tokens'[u].login = tokens[u].login
  BY <1>1 DEF NewToken, Extends
<1>4. DOMAIN tokens' = DOMAIN tokens \cup {n}
  BY <1>1, LoginsOfRows
<1> HIDE DEF n
<1>5. \A k : /\ FamilyIn(tokens, k) \subseteq FamilyIn(tokens', k)
             /\ RootsIn(tokens', k) = RootsIn(tokens, k)
  BY <1>1, <1>3, <1>4 DEF FamilyIn, RootsIn
<1>6. /\ \A k : k # l => LiveIn(tokens', k) = LiveIn(tokens, k)
      /\ LiveIn(tokens', l) \subseteq (LiveIn(tokens, l) \ {v}) \cup {n}
  BY <1>1, <1>3, <1>4 DEF LiveIn
<1>7. l \notin forked' => l \notin forked /\ v \in LiveIn(tokens, l)
  BY <1>1, <1>2 DEF Live, LiveIn
<1>8. Rooted'
  <2>1. ASSUME NEW t \in DOMAIN tokens' PROVE RootsIn(tokens', tokens'[t].login) # {}
    <3>1. PICK u \in DOMAIN tokens : tokens'[t].login = tokens[u].login
      BY <1>1, <1>3, <1>4
    <3> QED BY <3>1, <1>5 DEF LoginInv, Rooted
  <2>2. ASSUME NEW k \in ended' PROVE FamilyIn(tokens', k) # {}
    <3>1. FamilyIn(tokens, k) # {}
      BY <1>2 DEF LoginInv, Rooted
    <3> QED BY <3>1, <1>5
  <2> QED BY <2>1, <2>2 DEF Rooted
<1>9. RootsOnce'
  BY <1>2, <1>5 DEF LoginInv, RootsOnce
<1>10. LiveOnce'
  <2> SUFFICES ASSUME NEW k \in Logins \ forked'
               PROVE  /\ \A t, u \in LiveIn(tokens', k) : t = u
                      /\ k \in ended' => LiveIn(tokens', k) = {}
    BY DEF LiveOnce
  <2>0. k \in Logins \ forked
    BY <1>2
  <2>1. CASE k = l
    <3>1. v \in LiveIn(tokens, l)
      BY <2>1, <1>7
    <3>2. LiveIn(tokens, l) = {v} /\ l \notin ended
      BY <2>0, <2>1, <3>1 DEF LoginInv, LiveOnce
    <3>3. LiveIn(tokens', l) \subseteq {n}
      BY <3>2, <1>6
    <3> QED BY <2>1, <3>2, <3>3, <1>2
  <2>2. CASE k # l
    <3>1. LiveIn(tokens', k) = LiveIn(tokens, k)
      BY <2>2, <1>6
    <3> QED BY <2>0, <3>1, <1>2 DEF LoginInv, LiveOnce
  <2> QED BY <2>1, <2>2
<1> QED BY <1>8, <1>9, <1>10 DEF LoginInv

LEMMA RevokeKeeps ==
  ASSUME TypeInv, LoginInv, NEW c \in Clis, Revoke(c)
  PROVE  LoginInv'
<1> DEFINE l == request[c].login
           rows == request[c].rows
<1>1. /\ l \in Logins /\ request[c].token \in Family(l)
      /\ Extends(tokens', tokens) /\ DOMAIN tokens' = DOMAIN tokens
      /\ \A u \in DOMAIN tokens : /\ tokens'[u].root = tokens[u].root
                                  /\ u \in rows => tokens'[u].revoked
                                  /\ u \notin rows => tokens'[u] = tokens[u]
  BY RevokedRows
<1>2. /\ forked' = IF \E t \in Family(l) \ rows : Live(t) THEN forked \cup {l} ELSE forked
      /\ ended' = ended \cup {l}
      /\ UNCHANGED <<login, raced>>
  BY DEF Revoke
<1>3. \A u \in DOMAIN tokens : tokens'[u].login = tokens[u].login
  BY <1>1 DEF Extends
<1>4. \A k : FamilyIn(tokens', k) = FamilyIn(tokens, k) /\ RootsIn(tokens', k) = RootsIn(tokens, k)
  BY <1>1, <1>3 DEF RootsIn, FamilyIn
<1>5. \A k : LiveIn(tokens', k) \subseteq LiveIn(tokens, k) \ rows
  BY <1>1, <1>3 DEF LiveIn
<1>6. FamilyIn(tokens, l) # {}
  BY <1>1 DEF Family, FamilyIn
<1>7. l \notin forked' => LiveIn(tokens, l) \subseteq rows
  <2> SUFFICES ASSUME l \notin forked', NEW t \in LiveIn(tokens, l), t \notin rows PROVE FALSE
    OBVIOUS
  <2>1. t \in Family(l) \ rows /\ Live(t)
    BY DEF LiveIn, Family, Live
  <2> QED BY <2>1, <1>2
<1>8. Rooted'
  BY <1>1, <1>2, <1>3, <1>4, <1>6 DEF LoginInv, Rooted
<1>9. RootsOnce'
  BY <1>2, <1>4 DEF LoginInv, RootsOnce
<1>10. LiveOnce'
  <2> SUFFICES ASSUME NEW k \in Logins \ forked'
               PROVE  /\ \A t, u \in LiveIn(tokens', k) : t = u
                      /\ k \in ended' => LiveIn(tokens', k) = {}
    BY DEF LiveOnce
  <2>1. k \in Logins \ forked
    BY <1>2
  <2>2. \A t, u \in LiveIn(tokens', k) : t = u
    BY <2>1, <1>5 DEF LoginInv, LiveOnce
  <2>3. CASE k = l
    BY <2>2, <2>3, <1>5, <1>7
  <2>4. CASE k # l
    BY <2>1, <2>2, <2>4, <1>2, <1>5 DEF LoginInv, LiveOnce
  <2> QED BY <2>3, <2>4
<1> QED BY <1>8, <1>9, <1>10 DEF LoginInv

LEMMA LoginNext == TypeInv /\ CodeInv /\ LoginInv /\ [Next]_vars => LoginInv'
<1> SUFFICES ASSUME TypeInv, CodeInv, LoginInv, [Next]_vars PROVE LoginInv'
  OBVIOUS
<1>1. ASSUME NEW c \in Clis, Command(c) \/ Client(c) \/ NoAnswer(c) \/ Killed(c)
      PROVE  LoginInv'
  <2>1. CASE Start(c)
    BY <2>1, StartKeeps
  <2>2. CASE Refresh(c) \/ Logout(c) \/ NoAnswer(c) \/ Killed(c) \/ Client(c)
    <3>1. UNCHANGED <<login, tokens, history>>
      BY <2>2 DEF Refresh, Logout, NoAnswer, Killed, Client, Poll, LoginTimesOut, SendRefresh,
                  SendLogout, Save, Clear, server
    <3> QED BY <3>1, LoginSame
  <2> QED BY <1>1, <2>1, <2>2 DEF Command
<1>2. ASSUME NEW c \in Clis, Api(c) PROVE LoginInv'
  <2>1. CASE Expire(c)
    <3>1. request[c].login \in Logins /\ request[c].read \in {"pending", "approved"}
      BY <2>1 DEF Expire, TypeInv, RequestOK
    <3> QED BY <2>1, <3>1, SetStatusKeeps DEF Expire, Statuses
  <2> QED BY <1>2, <2>1, ExchangeKeeps, RotateKeeps, RevokeKeeps DEF Api
<1>3. ASSUME NEW b \in Browsers, Decide(b) \/ Decided(b) PROVE LoginInv'
  <2>1. CASE Decide(b)
    BY <2>1, LoginSame DEF Decide
  <2>2. CASE Decided(b)
    <3>1. /\ browser[b].login \in Logins /\ browser[b].read \in {"pending", "approved"}
          /\ browser[b].phase \in Statuses \ {"consumed"}
      BY <2>2 DEF Decided, TypeInv, BrowserOK, Statuses
    <3> QED BY <2>2, <3>1, SetStatusKeeps DEF Decided
  <2> QED BY <1>3, <2>1, <2>2
<1>4. CASE Tick \/ UNCHANGED vars
  BY <1>4, LoginSame DEF Tick, vars, server, history
<1> QED BY <1>1, <1>2, <1>3, <1>4 DEF Next

LEMMA LoginInvHolds == Spec => [](TypeInv /\ LoginInv)
<1>1. Init => TypeInv /\ CodeInv /\ LoginInv
  BY InitType, CodeInit, LoginInit
<1>2. TypeInv /\ CodeInv /\ LoginInv /\ [Next]_vars => (TypeInv /\ CodeInv /\ LoginInv)'
  BY NextType, CodeNext, LoginNext
<1> QED BY <1>1, <1>2, PTL DEF Spec

LEMMA AtMostOne ==
  ASSUME NEW S, \A t, u \in S : t = u
  PROVE  Cardinality(S) =< 1
<1>1. CASE S = {}
  BY <1>1, FS_EmptySet
<1>2. CASE S # {}
  <2>1. PICK x \in S : S = {x}
    BY <1>2
  <2> QED BY <2>1, FS_Singleton
<1> QED BY <1>1, <1>2

(* exchange_cli_auth_token, for any number of polls, lost answers, decisions *)
(* and logins: a code gives one first token at most and is consumed only if  *)
(* it gave one; it stays consumed unless a request wrote its status from an  *)
(* earlier read.                                                             *)
THEOREM ConsumedOnceHolds == Spec => []ConsumedOnce
<1>1. TypeInv /\ LoginInv => ConsumedOnce
  <2> SUFFICES ASSUME LoginInv, NEW l \in Logins
               PROVE  /\ Cardinality(Roots(l)) =< 1
                      /\ login[l].status = "consumed" => Roots(l) # {}
                      /\ Roots(l) # {} => login[l].status = "consumed" \/ l \in raced
    BY DEF ConsumedOnce
  <2>1. Roots(l) = RootsIn(tokens, l)
    BY DEF Roots, Family, RootsIn
  <2>2. \A t, u \in Roots(l) : t = u
    BY <2>1 DEF LoginInv, RootsOnce
  <2> QED BY <2>1, <2>2, AtMostOne DEF LoginInv, RootsOnce
<1> QED BY <1>1, LoginInvHolds, PTL

(* rotate_cli_refresh_token: however many processes refresh, a login has one *)
(* live refresh token, unless two requests changed its tokens from the same  *)
(* read.                                                                     *)
THEOREM OneLiveTokenHolds == Spec => []OneLiveToken
<1>1. TypeInv /\ LoginInv => OneLiveToken
  <2> SUFFICES ASSUME LoginInv, NEW l \in Logins \ forked
               PROVE  Cardinality({t \in Family(l) : Live(t)}) =< 1
    BY DEF OneLiveToken
  <2>1. {t \in Family(l) : Live(t)} = LiveIn(tokens, l)
    BY DEF Family, Live, LiveIn
  <2>2. \A t, u \in LiveIn(tokens, l) : t = u
    BY DEF LoginInv, LiveOnce
  <2> QED BY <2>1, <2>2, AtMostOne
<1> QED BY <1>1, LoginInvHolds, PTL

(* revoke_refresh_token_family: after a logout no token of the login is live *)
(* ever again, unless a refresh of the same login overlapped with it.        *)
THEOREM LogoutEndsHolds == Spec => []LogoutEnds
<1>1. TypeInv /\ LoginInv => LogoutEnds
  <2> SUFFICES ASSUME TypeInv, LoginInv, NEW l \in ended \ forked, NEW t \in Family(l)
               PROVE  ~Live(t)
    BY DEF LogoutEnds
  <2>1. LiveIn(tokens, l) = {}
    BY LoginsOfRows DEF LoginInv, LiveOnce
  <2> QED BY <2>1 DEF LiveIn, Family, Live
<1> QED BY <1>1, LoginInvHolds, PTL

-----------------------------------------------------------------------------
(* A login is approved before its code is exchanged, and what is exchanged   *)
(* hands its login on to the tokens that follow.                             *)
ApprovedInv ==
  /\ \A l \in Logins : login[l].status \in {"approved", "consumed"} => l \in approved
  /\ \A c \in Clis : request[c].phase = "exchange" => request[c].login \in approved
  /\ \A t \in DOMAIN tokens : tokens[t].login \in approved

LEMMA ApprovedInit == Init => ApprovedInv
BY DEF Init, ApprovedInv, NoRequest

(* A step after which there are no more tokens, exchanges and approvals. *)
LEMMA ApprovedKept ==
  ASSUME ApprovedInv, approved \subseteq approved',
         \A l \in Logins : login'[l].status \in {"approved", "consumed"} =>
            login[l].status \in {"approved", "consumed"} \/ l \in approved',
         \A c \in Clis : request'[c].phase = "exchange" =>
            \/ request[c].phase = "exchange" /\ request'[c].login = request[c].login
            \/ request'[c].login \in approved',
         \A t \in DOMAIN tokens' : tokens'[t].login \in approved' \cup {tokens[u].login : u \in DOMAIN tokens}
  PROVE  ApprovedInv'
<1>1. \A l \in Logins : login'[l].status \in {"approved", "consumed"} => l \in approved'
  BY DEF ApprovedInv
<1>2. \A c \in Clis : request'[c].phase = "exchange" => request'[c].login \in approved'
  BY DEF ApprovedInv
<1>3. \A t \in DOMAIN tokens' : tokens'[t].login \in approved'
  BY DEF ApprovedInv
<1> QED BY <1>1, <1>2, <1>3 DEF ApprovedInv

LEMMA StatusOfApproved ==
  ASSUME TypeInv, NEW l \in Logins, NEW read, NEW status, SetStatus(l, read, status)
  PROVE  \A k \in Logins : login'[k].status = IF k = l THEN status ELSE login[k].status
<1>1. login' = [login EXCEPT ![l].status = status] /\ login \in [Logins -> Login]
  BY DEF SetStatus, TypeInv, TypeOK
<1>2. login'[l].status = status
  BY <1>1 DEF Login
<1>3. \A k \in Logins : k # l => login'[k] = login[k]
  BY <1>1
<1> QED BY <1>2, <1>3

LEMMA ApiKeepsApproved ==
  ASSUME TypeInv, ApprovedInv, NEW c \in Clis, Api(c)
  PROVE  ApprovedInv'
<1>1. /\ approved' = approved
      /\ \A d \in Clis : request'[d] = (IF d = c THEN NoRequest ELSE request[d])
  BY DEF Api, Exchange, Expire, Rotate, Revoke, Answer, Ask, TypeInv, TypeOK
<1>2. \A d \in Clis : request'[d].phase = "exchange" =>
        request[d].phase = "exchange" /\ request'[d].login = request[d].login
  BY <1>1 DEF NoRequest
<1>3. \A l \in Logins : login'[l].status \in {"approved", "consumed"} =>
        login[l].status \in {"approved", "consumed"} \/ l \in approved
  <2>1. CASE Exchange(c)
    <3>1. request[c].login \in Logins /\ request[c].login \in approved
      BY <2>1, ExchangedRows DEF Exchange, ApprovedInv
    <3>2. SetStatus(request[c].login, request[c].read, "consumed")
      BY <2>1 DEF Exchange
    <3> QED BY <3>1, <3>2, StatusOfApproved
  <2>2. CASE Expire(c)
    <3>1. /\ request[c].login \in Logins
          /\ SetStatus(request[c].login, request[c].read, "expired")
      BY <2>2 DEF Expire, TypeInv, RequestOK
    <3> QED BY <3>1, StatusOfApproved
  <2>3. CASE Rotate(c) \/ Revoke(c)
    BY <2>3 DEF Rotate, Revoke
  <2> QED BY <2>1, <2>2, <2>3 DEF Api
<1>4. \A t \in DOMAIN tokens' : tokens'[t].login \in approved \cup {tokens[u].login : u \in DOMAIN tokens}
  <2> DEFINE n == Len(tokens) + 1
  <2>1. CASE Exchange(c)
    <3>1. /\ DOMAIN tokens' = DOMAIN tokens \cup {n} /\ tokens'[n].login = request[c].login
          /\ \A u \in DOMAIN tokens : tokens'[u] = tokens[u]
      <4>1. /\ DOMAIN tokens' = 1 .. n /\ tokens'[n] = NewToken(request[c].login, TRUE)
            /\ \A u \in DOMAIN tokens : tokens'[u] = tokens[u]
        BY <2>1, ExchangedRows
      <4> QED BY <4>1, LoginsOfRows DEF NewToken
    <3>2. request[c].login \in approved
      BY <2>1 DEF Exchange, ApprovedInv
    <3> QED BY <3>1, <3>2
  <2>2. CASE Rotate(c)
    <3>1. /\ request[c].token \in DOMAIN tokens /\ tokens[request[c].token].login = request[c].login
          /\ DOMAIN tokens' = DOMAIN tokens \cup {n} /\ tokens'[n].login = request[c].login
          /\ \A u \in DOMAIN tokens : tokens'[u].login = tokens[u].login
      <4>1. /\ request[c].token \in DOMAIN tokens
            /\ tokens[request[c].token].login = request[c].login
            /\ Extends(tokens', tokens) /\ DOMAIN tokens' = 1 .. n
            /\ tokens'[n] = NewToken(request[c].login, FALSE)
        BY <2>2, RotatedRows
      <4> QED BY <4>1, LoginsOfRows DEF NewToken, Extends
    <3> QED BY <3>1
  <2>3. CASE Revoke(c)
    <3>1. DOMAIN tokens' = DOMAIN tokens /\ Extends(tokens', tokens)
      BY <2>3, RevokedRows
    <3> QED BY <3>1 DEF Extends
  <2>4. CASE Expire(c)
    BY <2>4 DEF Expire
  <2> QED BY <2>1, <2>2, <2>3, <2>4 DEF Api
<1> QED BY <1>1, <1>2, <1>3, <1>4, ApprovedKept

LEMMA ProcessKeepsApproved ==
  ASSUME TypeInv, ApprovedInv, NEW c \in Clis,
         Command(c) \/ Client(c) \/ NoAnswer(c) \/ Killed(c)
  PROVE  ApprovedInv'
<1>1. UNCHANGED <<tokens, approved>>
  BY DEF Command, Start, Refresh, Logout, Client, Poll, LoginTimesOut, SendRefresh, SendLogout,
         Save, Clear, NoAnswer, Killed, server, history
<1>2. \A l \in Logins : login'[l].status \in {"approved", "consumed"} =>
        login[l].status \in {"approved", "consumed"}
  <2>1. CASE Start(c)
    BY <2>1 DEF Start, TypeInv, TypeOK
  <2>2. CASE login' = login
    BY <2>2
  <2> QED BY <2>1, <2>2 DEF Command, Refresh, Logout, Client, Poll, LoginTimesOut, SendRefresh,
                            SendLogout, Save, Clear, NoAnswer, Killed, server
<1>3. \A d \in Clis : request'[d].phase = "exchange" =>
        \/ request[d].phase = "exchange" /\ request'[d].login = request[d].login
        \/ request'[d].login \in approved'
  <2>1. CASE Poll(c)
    <3> DEFINE l == cli[c].login
               s == login[l].status
               asked(phase) == [NoRequest EXCEPT !.phase = phase, !.login = l, !.read = s]
    <3>1. l \in Logins
      BY <2>1 DEF Poll, TypeInv, CliOK
    <3>2. asked("expire").phase = "expire" /\ asked("exchange").login = l
      BY DEF NoRequest
    <3>3. \/ request' = request
          \/ request' = [request EXCEPT ![c] = asked("expire")]
          \/ s = "approved" /\ request' = [request EXCEPT ![c] = asked("exchange")]
      BY <2>1 DEF Poll, Ask
    <3>4. s = "approved" => l \in approved
      BY <3>1 DEF ApprovedInv
    <3> HIDE DEF asked, l, s
    <3> QED BY <1>1, <3>2, <3>3, <3>4 DEF TypeInv, TypeOK
  <2>2. CASE SendRefresh(c) \/ SendLogout(c)
    <3>1. \/ request' = request
          \/ /\ request'[c].phase \in {"rotate", "revoke"}
             /\ \A d \in Clis : d # c => request'[d] = request[d]
      BY <2>2 DEF SendRefresh, SendLogout, Ask, NoRequest, TypeInv, TypeOK
    <3> QED BY <3>1
  <2>3. CASE NoAnswer(c) \/ Killed(c)
    <3>1. PICK b : request' = [request EXCEPT ![c].lost = b]
      BY <2>3 DEF NoAnswer, Killed
    <3>2. \A d \in Clis : request'[d].phase = request[d].phase /\ request'[d].login = request[d].login
      BY <3>1 DEF TypeInv, TypeOK, Request
    <3> QED BY <3>2
  <2>4. CASE request' = request
    BY <2>4
  <2> QED BY <2>1, <2>2, <2>3, <2>4
          DEF Command, Start, Refresh, Logout, Client, LoginTimesOut, Save, Clear
<1> QED BY <1>1, <1>2, <1>3, ApprovedKept

LEMMA ApprovedNext == TypeInv /\ ApprovedInv /\ [Next]_vars => ApprovedInv'
<1> SUFFICES ASSUME TypeInv, ApprovedInv, [Next]_vars PROVE ApprovedInv'
  OBVIOUS
<1>1. ASSUME NEW c \in Clis, Command(c) \/ Client(c) \/ Api(c) \/ NoAnswer(c) \/ Killed(c)
      PROVE  ApprovedInv'
  BY <1>1, ProcessKeepsApproved, ApiKeepsApproved
<1>2. ASSUME NEW b \in Browsers, Decided(b) PROVE ApprovedInv'
  <2> DEFINE l == browser[b].login
             status == browser[b].phase
  <2>1. l \in Logins /\ status \in {"approved", "denied", "expired"}
    BY <1>2 DEF Decided, TypeInv, BrowserOK
  <2>2. /\ approved' = (IF status = "approved" THEN approved \cup {l} ELSE approved)
        /\ UNCHANGED <<tokens, request>> /\ SetStatus(l, browser[b].read, status)
    BY <1>2 DEF Decided
  <2>3. \A k \in Logins : login'[k].status = IF k = l THEN status ELSE login[k].status
    BY <2>1, <2>2, StatusOfApproved
  <2> HIDE DEF l, status
  <2> QED BY <2>1, <2>2, <2>3 DEF ApprovedInv
<1>3. CASE (\E b \in Browsers : Decide(b)) \/ Tick \/ UNCHANGED vars
  <2>1. UNCHANGED <<login, tokens, request, approved>>
    BY <1>3 DEF Decide, Tick, vars, server, history
  <2> QED BY <2>1 DEF ApprovedInv
<1> QED BY <1>1, <1>2, <1>3 DEF Next

(* verify_cli_auth, for any number of requests of the browser and of polls,  *)
(* refreshes and lost answers: every token is of a login that the user has   *)
(* approved.                                                                 *)
THEOREM ApprovedFirstHolds == Spec => []ApprovedFirst
<1>1. Init => TypeInv /\ ApprovedInv
  BY InitType, ApprovedInit
<1>2. TypeInv /\ ApprovedInv /\ [Next]_vars => (TypeInv /\ ApprovedInv)'
  BY NextType, ApprovedNext
<1>3. ApprovedInv => ApprovedFirst
  BY DEF ApprovedInv, ApprovedFirst
<1> QED BY <1>1, <1>2, <1>3, PTL DEF Spec

-----------------------------------------------------------------------------
(* The keyring.  While no answer is lost, each process waits for the request *)
(* it has in the API, and a token about to be saved is known to its process  *)
(* alone.                                                                    *)
Meets(p, q, rows) ==
  /\ ~q.lost
  /\ p.phase \in {"idle", "login", "polling"} => p.token = 0
  /\ q.phase \in {"exchange", "expire"} => p.phase = "polling"
  /\ q.phase = "rotate" => p.phase = "refreshing" /\ p.token = q.token
  /\ q.phase = "revoke" => /\ p.phase = "leaving" /\ p.token = q.token
                           /\ \A t \in q.rows : t \in DOMAIN rows /\ rows[t].login = q.login

AllMeet == \A c \in Clis : Meets(cli[c], request[c], tokens)

OwnToken ==
  \A c \in Clis : cli[c].phase = "save" =>
    /\ cli[c].token # keyring
    /\ \A d \in Clis : d # c => cli[d].token # cli[c].token
    /\ Live(cli[c].token) \/ tokens[cli[c].token].login \in ended

KeyringInv == faults = 0 => AllMeet /\ OwnToken /\ KeyringUsable

LEMMA KeyringInit == Init => KeyringInv
BY DEF Init, KeyringInv, AllMeet, OwnToken, KeyringUsable, Meets, Resting, NoRequest

(* A step of one process that neither revokes a token nor touches the        *)
(* keyring, and does not make the process give up the keyring's token.       *)
LEMMA ProcessKeeps ==
  ASSUME TypeInv, AllMeet, OwnToken, KeyringUsable, NEW c \in Clis, NEW p, NEW q,
         UNCHANGED <<tokens, keyring, ended, faults>>,
         cli' = [cli EXCEPT ![c] = p], request' = [request EXCEPT ![c] = q],
         Meets(p, q, tokens), cli[c].phase \notin {"save", "clear"}, p.phase # "save",
         p.token \in {0, keyring, cli[c].token}, cli[c].token \in {0, p.token}
  PROVE  AllMeet' /\ OwnToken' /\ KeyringUsable'
<1>1. \A d \in Clis : cli'[d] = (IF d = c THEN p ELSE cli[d])
                      /\ request'[d] = (IF d = c THEN q ELSE request[d])
  BY DEF TypeInv, TypeOK
<1>2. AllMeet'
  BY <1>1 DEF AllMeet
<1>3. OwnToken'
  <2> SUFFICES ASSUME NEW d \in Clis, cli'[d].phase = "save"
               PROVE  /\ cli'[d].token # keyring
                      /\ \A e \in Clis : e # d => cli'[e].token # cli'[d].token
                      /\ Live(cli'[d].token) \/ tokens[cli'[d].token].login \in ended
    BY DEF OwnToken, Live
  <2>1. d # c /\ cli'[d] = cli[d]
    BY <1>1
  <2>2. cli[d].token # 0
    BY <2>1 DEF TypeInv, CliOK
  <2> QED BY <1>1, <2>1, <2>2 DEF OwnToken
<1>4. KeyringUsable'
  <2> SUFFICES ASSUME faults = 0, keyring # 0, ~Live(keyring), tokens[keyring].login \notin ended
               PROVE  \E d \in Clis : cli'[d].phase \in {"save", "clear"} \/ cli'[d].token = keyring
    BY DEF KeyringUsable, Live
  <2>1. PICK d \in Clis : cli[d].phase \in {"save", "clear"} \/ cli[d].token = keyring
    BY DEF KeyringUsable
  <2>2. CASE d = c
    BY <1>1, <2>1, <2>2
  <2>3. CASE d # c
    BY <1>1, <2>1, <2>3
  <2> QED BY <2>2, <2>3
<1> QED BY <1>2, <1>3, <1>4

LEMMA ClientKeepsKeyring ==
  ASSUME TypeInv, KeyringInv, NEW c \in Clis, Command(c) \/ Client(c)
  PROVE  KeyringInv'
<1> SUFFICES ASSUME faults = 0 PROVE AllMeet' /\ OwnToken' /\ KeyringUsable'
  BY DEF KeyringInv, Command, Start, Refresh, Logout, Client, Poll, LoginTimesOut, SendRefresh,
         SendLogout, Save, Clear
<1>0. AllMeet /\ OwnToken /\ KeyringUsable
  BY DEF KeyringInv
<1>m. Meets(cli[c], request[c], tokens)
  BY <1>0 DEF AllMeet
<1>q. request = [request EXCEPT ![c] = request[c]]
  BY DEF TypeInv, TypeOK
<1>r. request[c] \in Request /\ cli[c] \in Cli
  BY DEF TypeInv, TypeOK
<1>n. cli[c].phase \notin {"polling", "refreshing", "leaving"} => request[c].phase = "none"
  BY <1>m, <1>r DEF Meets, Request
<1>t. Len(tokens) \in Nat /\ DOMAIN tokens = 1 .. Len(tokens)
  BY LoginsOfRows
<1>1. CASE Start(c)
  <2>1. PICK l \in Logins : cli' = [cli EXCEPT ![c] = [phase |-> "login", login |-> l, token |-> 0]]
    BY <1>1 DEF Start, SetCli
  <2>2. request' = [request EXCEPT ![c] = request[c]]
    BY <1>1, <1>q, <1>r DEF Start
  <2>3. cli[c].token = 0 /\ cli[c].phase = "idle"
    BY <1>1, <1>m DEF Start, Meets
  <2>4. Meets([phase |-> "login", login |-> l, token |-> 0], request[c], tokens)
    BY <1>m, <1>n, <2>3 DEF Meets
  <2> QED BY <1>0, <1>1, <2>1, <2>2, <2>3, <2>4, ProcessKeeps DEF Start, history
<1>2. CASE Refresh(c) \/ Logout(c)
  <2>1. PICK phase \in {"refresh", "logout"} :
          cli' = [cli EXCEPT ![c] = [phase |-> phase, login |-> None, token |-> keyring]]
    BY <1>2 DEF Refresh, Logout, SetCli
  <2>2. request' = [request EXCEPT ![c] = request[c]]
    BY <1>2, <1>q, <1>r DEF Refresh, Logout
  <2>3. cli[c].token = 0 /\ cli[c].phase = "idle"
    BY <1>2, <1>m DEF Refresh, Logout, Meets
  <2>4. Meets([phase |-> phase, login |-> None, token |-> keyring], request[c], tokens)
    BY <1>m, <1>n, <2>3 DEF Meets
  <2> QED BY <1>0, <1>2, <2>1, <2>2, <2>3, <2>4, ProcessKeeps DEF Refresh, Logout, history, server
<1>3. CASE Poll(c) \/ LoginTimesOut(c)
  <2>1. cli[c].token = 0 /\ cli[c].phase = "login"
    BY <1>3, <1>m DEF Poll, LoginTimesOut, Meets
  <2>2. request[c].phase = "none"
    BY <1>n, <2>1
  <2>3. PICK p, q : /\ cli' = [cli EXCEPT ![c] = p] /\ request' = [request EXCEPT ![c] = q]
                    /\ p.token = 0 /\ p.phase \in {"idle", "polling"}
                    /\ Meets(p, q, tokens)
    <3> DEFINE l == cli[c].login
               s == login[l].status
               polling == [cli[c] EXCEPT !.phase = "polling"]
               asked(phase) == [NoRequest EXCEPT !.phase = phase, !.login = l, !.read = s]
    <3>1. polling.token = 0 /\ polling.phase = "polling"
      BY <1>r, <2>1 DEF Cli
    <3>2. \A phase \in {"exchange", "expire"} : Meets(polling, asked(phase), tokens)
      BY <3>1 DEF Meets, NoRequest
    <3>3. Meets(Resting, request[c], tokens)
      BY <1>m, <2>2 DEF Meets, Resting
    <3>4. CASE cli' = [cli EXCEPT ![c] = Resting] /\ UNCHANGED request
      BY <3>3, <3>4, <1>q, <1>r DEF Resting
    <3>5. CASE /\ cli' = [cli EXCEPT ![c] = polling]
               /\ \/ request' = [request EXCEPT ![c] = asked("expire")]
                  \/ request' = [request EXCEPT ![c] = asked("exchange")]
      <4> HIDE DEF polling, asked
      <4> QED BY <3>1, <3>2, <3>5
    <3> QED BY <1>3, <3>4, <3>5 DEF Poll, LoginTimesOut, SetCli, Ask
  <2> QED BY <1>0, <1>3, <2>1, <2>3, ProcessKeeps DEF Poll, LoginTimesOut, history
<1>4. CASE SendRefresh(c) \/ SendLogout(c)
  <2> DEFINE t == cli[c].token
             l == tokens[t].login
             rotate == [NoRequest EXCEPT !.phase = "rotate", !.login = l, !.token = t]
             revoke == [NoRequest EXCEPT !.phase = "revoke", !.login = l, !.token = t,
                                         !.rows = {u \in Family(l) : Live(u)}]
             moved(phase) == [cli[c] EXCEPT !.phase = phase]
  <2>1. cli[c].phase \in {"refresh", "logout"}
    BY <1>4 DEF SendRefresh, SendLogout
  <2>2. request[c].phase = "none"
    BY <1>n, <2>1
  <2>3. \A phase \in {"refreshing", "leaving", "clear"} : moved(phase).token = t /\ moved(phase).phase = phase
    BY <1>r DEF Cli
  <2>4. Meets(moved("refreshing"), rotate, tokens)
    BY <2>3 DEF Meets, NoRequest
  <2>5. Meets(moved("leaving"), revoke, tokens)
    BY <2>3 DEF Meets, NoRequest, Family
  <2>6. Meets(moved("clear"), request[c], tokens)
    BY <2>2, <2>3, <1>m DEF Meets
  <2>7. PICK p, q : /\ cli' = [cli EXCEPT ![c] = p] /\ request' = [request EXCEPT ![c] = q]
                    /\ p.token = t /\ p.phase # "save" /\ Meets(p, q, tokens)
    <3>1. CASE SendLogout(c)
      BY <3>1, <2>3, <2>5 DEF SendLogout, SetCli, Ask
    <3>2. CASE cli' = [cli EXCEPT ![c] = moved("refreshing")] /\ request' = [request EXCEPT ![c] = rotate]
      BY <3>2, <2>3, <2>4
    <3>3. CASE cli' = [cli EXCEPT ![c] = moved("clear")] /\ UNCHANGED request
      BY <3>3, <2>3, <2>6, <1>q, <1>r
    <3> QED BY <1>4, <3>1, <3>2, <3>3 DEF SendRefresh, SetCli, Ask
  <2> QED BY <1>0, <1>4, <2>1, <2>7, ProcessKeeps DEF SendRefresh, SendLogout, server, history
<1>5. CASE Save(c) \/ Clear(c)
  <2>1. /\ cli[c].phase \in {"save", "clear"}
        /\ \A d \in Clis : d # c => cli'[d] = cli[d]
        /\ \/ cli'[c] = Resting
           \/ cli'[c] = [phase |-> "clear", login |-> None, token |-> cli[c].token]
        /\ UNCHANGED <<tokens, request, ended, faults>>
    BY <1>5 DEF Save, Clear, SetCli, server, history, TypeInv, TypeOK
  <2>2. AllMeet'
    <3>1. Meets(cli'[c], request[c], tokens)
      BY <1>m, <1>n, <2>1 DEF Meets, Resting
    <3> QED BY <1>0, <2>1, <3>1 DEF AllMeet
  <2>3. keyring' = 0 \/ (cli[c].phase = "save" /\ keyring' = cli[c].token)
    BY <1>5 DEF Save, Clear
  <2>4. OwnToken'
    <3> SUFFICES ASSUME NEW d \in Clis, cli'[d].phase = "save"
                 PROVE  /\ cli'[d].token # keyring'
                        /\ \A e \in Clis : e # d => cli'[e].token # cli'[d].token
                        /\ Live(cli'[d].token) \/ tokens[cli'[d].token].login \in ended
      BY <2>1 DEF OwnToken, Live
    <3>1. d # c /\ cli'[d] = cli[d] /\ cli'[c].token \in {0, cli[c].token}
      BY <2>1 DEF Resting
    <3>2. cli[d].token # 0
      BY <3>1 DEF TypeInv, CliOK
    <3> QED BY <1>0, <2>1, <2>3, <3>1, <3>2 DEF OwnToken
  <2>5. KeyringUsable'
    <3>1. keyring' # 0 => Live(keyring') \/ tokens[keyring'].login \in ended
      BY <1>0, <2>3 DEF OwnToken
    <3> QED BY <2>1, <3>1 DEF KeyringUsable, Live
  <2> QED BY <2>2, <2>4, <2>5
<1> QED BY <1>1, <1>2, <1>3, <1>4, <1>5 DEF Command, Client

(* A request that has its answer, and whose process waits for it.           *)
LEMMA Answered ==
  ASSUME TypeInv, AllMeet, NEW c \in Clis, NEW p \in Cli, p.phase \in {"idle", "save", "clear"},
         p.phase = "idle" => p.token = 0, Answer(c, p), Extends(tokens', tokens)
  PROVE  /\ \A d \in Clis : cli'[d] = (IF d = c THEN p ELSE cli[d])
         /\ AllMeet'
<1>1. ~request[c].lost
  BY DEF AllMeet, Meets
<1>2. \A d \in Clis : /\ cli'[d] = (IF d = c THEN p ELSE cli[d])
                      /\ request'[d] = (IF d = c THEN NoRequest ELSE request[d])
  BY <1>1 DEF Answer, Ask, TypeInv, TypeOK
<1>3. Meets(p, NoRequest, tokens')
  BY DEF Meets, NoRequest
<1>4. ASSUME NEW d \in Clis PROVE Meets(cli[d], request[d], tokens')
  <2>1. Meets(cli[d], request[d], tokens)
    BY DEF AllMeet
  <2>2. ASSUME request[d].phase = "revoke", NEW t \in request[d].rows
        PROVE  t \in DOMAIN tokens' /\ tokens'[t].login = request[d].login
    BY <2>1, <2>2, LoginsOfRows DEF Meets, Extends
  <2> QED BY <2>1, <2>2 DEF Meets
<1>5. AllMeet'
  BY <1>2, <1>3, <1>4 DEF AllMeet
<1> QED BY <1>2, <1>5

LEMMA NewTokenKeeps ==
  ASSUME TypeInv, AllMeet, OwnToken, NEW c \in Clis, NEW p \in Cli,
         p.phase = "save", p.token = Len(tokens) + 1, Answer(c, p), Extends(tokens', tokens),
         UNCHANGED <<keyring, ended>>, ~tokens'[Len(tokens) + 1].revoked,
         \A t \in DOMAIN tokens : t # cli[c].token => tokens'[t] = tokens[t]
  PROVE  AllMeet' /\ OwnToken' /\ KeyringUsable'
<1>1. AllMeet' /\ \A d \in Clis : cli'[d] = (IF d = c THEN p ELSE cli[d])
  BY Answered
<1>2. /\ Len(tokens) \in Nat /\ DOMAIN tokens = 1 .. Len(tokens)
      /\ keyring \in 0 .. Len(tokens)
      /\ \A d \in Clis : cli[d].token \in 0 .. Len(tokens)
  BY LoginsOfRows DEF TypeInv, TypeOK, CliOK, Cli
<1>3. OwnToken'
  <2> SUFFICES ASSUME NEW d \in Clis, cli'[d].phase = "save"
               PROVE  /\ cli'[d].token # keyring
                      /\ \A e \in Clis : e # d => cli'[e].token # cli'[d].token
                      /\ \/ ~tokens'[cli'[d].token].revoked
                         \/ tokens'[cli'[d].token].login \in ended
    BY DEF OwnToken, Live
  <2>1. CASE d = c
    BY <1>1, <1>2, <2>1
  <2>2. CASE d # c
    <3>1. cli'[d] = cli[d] /\ cli[d].token \in DOMAIN tokens
      BY <1>1, <1>2, <2>2 DEF TypeInv, CliOK
    <3>2. tokens'[cli[d].token] = tokens[cli[d].token]
      BY <2>2, <3>1 DEF OwnToken
    <3> QED BY <1>1, <1>2, <2>2, <3>1, <3>2 DEF OwnToken, Live
  <2> QED BY <2>1, <2>2
<1>4. KeyringUsable'
  BY <1>1 DEF KeyringUsable
<1> QED BY <1>1, <1>3, <1>4

LEMMA ApiKeepsKeyring ==
  ASSUME TypeInv, KeyringInv, NEW c \in Clis, Api(c)
  PROVE  KeyringInv'
<1> SUFFICES ASSUME faults = 0 PROVE AllMeet' /\ OwnToken' /\ KeyringUsable'
  BY DEF KeyringInv, Api, Exchange, Expire, Rotate, Revoke
<1>0. AllMeet /\ OwnToken /\ KeyringUsable /\ Meets(cli[c], request[c], tokens)
  BY DEF KeyringInv, AllMeet
<1>t. Len(tokens) + 1 \in Nat /\ \A t \in DOMAIN tokens : t # 0
  BY LoginsOfRows
<1>1. CASE Exchange(c)
  <2> DEFINE p == [phase |-> "save", login |-> request[c].login, token |-> Len(tokens) + 1]
  <2>1. p \in Cli /\ Answer(c, p)
    BY <1>1, <1>t, ExchangedRows DEF Exchange, Cli, CliPhases
  <2>2. /\ Extends(tokens', tokens) /\ ~tokens'[Len(tokens) + 1].revoked
        /\ \A t \in DOMAIN tokens : tokens'[t] = tokens[t]
    <3>1. /\ Extends(tokens', tokens)
          /\ tokens'[Len(tokens) + 1] = NewToken(request[c].login, TRUE)
          /\ \A t \in DOMAIN tokens : tokens'[t] = tokens[t]
      BY <1>1, ExchangedRows
    <3> QED BY <3>1 DEF NewToken
  <2> QED BY <1>0, <1>1, <2>1, <2>2, NewTokenKeeps DEF Exchange
<1>2. CASE Rotate(c)
  <2> DEFINE p == [phase |-> "save", login |-> request[c].login, token |-> Len(tokens) + 1]
  <2>1. p \in Cli /\ Answer(c, p)
    BY <1>2, <1>t, RotatedRows DEF Rotate, Cli, CliPhases
  <2>2. cli[c].token = request[c].token
    BY <1>0, <1>2 DEF Meets, Rotate
  <2>3. /\ Extends(tokens', tokens) /\ ~tokens'[Len(tokens) + 1].revoked
        /\ \A t \in DOMAIN tokens : t # cli[c].token => tokens'[t] = tokens[t]
    <3>1. /\ Extends(tokens', tokens)
          /\ tokens'[Len(tokens) + 1] = NewToken(request[c].login, FALSE)
          /\ \A t \in DOMAIN tokens : t # cli[c].token => tokens'[t] = tokens[t]
      BY <1>2, <2>2, RotatedRows
    <3> QED BY <3>1 DEF NewToken
  <2> QED BY <1>0, <1>2, <2>1, <2>3, NewTokenKeeps DEF Rotate
<1>3. CASE Expire(c)
  <2>1. cli[c].phase = "polling" /\ cli[c].token = 0 /\ ~request[c].lost
    BY <1>0, <1>3 DEF Meets, Expire
  <2>2. cli' = [cli EXCEPT ![c] = Resting] /\ request' = [request EXCEPT ![c] = NoRequest]
    BY <1>3, <2>1 DEF Expire, Answer, Ask
  <2>3. Meets(Resting, NoRequest, tokens) /\ Resting.token = 0 /\ Resting.phase = "idle"
    BY DEF Meets, Resting, NoRequest
  <2> QED BY <1>0, <1>3, <2>1, <2>2, <2>3, ProcessKeeps DEF Expire
<1>4. CASE Revoke(c)
  <2> DEFINE p == [phase |-> "clear", login |-> None, token |-> request[c].token]
             l == request[c].login
             rows == request[c].rows
  <2>1. /\ Extends(tokens', tokens) /\ DOMAIN tokens' = DOMAIN tokens
        /\ \A u \in DOMAIN tokens : u \notin rows => tokens'[u] = tokens[u]
    BY <1>4, RevokedRows
  <2>2. p \in Cli /\ Answer(c, p) /\ keyring' = keyring /\ ended' = ended \cup {l}
    BY <1>4, <1>t DEF Revoke, Cli, CliPhases, TypeInv, TypeOK, Request
  <2>3. AllMeet' /\ \A d \in Clis : cli'[d] = (IF d = c THEN p ELSE cli[d])
    BY <1>0, <2>1, <2>2, Answered
  <2>4. cli[c].token = request[c].token /\ \A t \in rows : tokens[t].login = l
    BY <1>0, <1>4 DEF Meets, Revoke
  <2>5. OwnToken'
    <3> SUFFICES ASSUME NEW d \in Clis, cli'[d].phase = "save"
                 PROVE  /\ cli'[d].token # keyring
                        /\ \A e \in Clis : e # d => cli'[e].token # cli'[d].token
                        /\ \/ ~tokens'[cli'[d].token].revoked
                           \/ tokens'[cli'[d].token].login \in ended'
      BY <2>2 DEF OwnToken, Live
    <3>1. d # c /\ cli'[d] = cli[d]
      BY <2>3
    <3>2. cli[d].token \in DOMAIN tokens
      BY <3>1, LoginsOfRows DEF TypeInv, CliOK, Cli
    <3>3. CASE cli[d].token \in rows
      <4>1. tokens'[cli[d].token].login = l
        BY <2>1, <2>4, <3>2, <3>3 DEF Extends
      <4> QED BY <1>0, <2>2, <2>3, <2>4, <3>1, <4>1 DEF OwnToken
    <3>4. CASE cli[d].token \notin rows
      BY <1>0, <2>1, <2>2, <2>3, <2>4, <3>1, <3>2, <3>4 DEF OwnToken, Live
    <3> QED BY <3>3, <3>4
  <2>6. KeyringUsable'
    BY <2>3 DEF KeyringUsable
  <2> QED BY <2>3, <2>5, <2>6
<1> QED BY <1>1, <1>2, <1>3, <1>4 DEF Api

LEMMA KeyringNext == TypeInv /\ KeyringInv /\ [Next]_vars => KeyringInv'
<1> SUFFICES ASSUME TypeInv, KeyringInv, [Next]_vars PROVE KeyringInv'
  OBVIOUS
<1>1. ASSUME NEW c \in Clis, NoAnswer(c) \/ Killed(c) PROVE KeyringInv'
  <2>1. faults' = faults + 1 /\ faults \in Nat
    BY <1>1 DEF NoAnswer, Killed, TypeInv, TypeOK
  <2> QED BY <2>1 DEF KeyringInv
<1>2. ASSUME NEW b \in Browsers, Decide(b) \/ Decided(b) PROVE KeyringInv'
  <2>1. UNCHANGED <<tokens, keyring, cli, request, ended, faults>>
    BY <1>2 DEF Decide, Decided, history
  <2> QED BY <2>1 DEF KeyringInv, AllMeet, OwnToken, KeyringUsable, Live
<1>3. CASE Tick \/ UNCHANGED vars
  <2>1. UNCHANGED <<tokens, keyring, cli, request, ended, faults>>
    BY <1>3 DEF Tick, vars, server, history
  <2> QED BY <2>1 DEF KeyringInv, AllMeet, OwnToken, KeyringUsable, Live
<1> QED BY <1>1, <1>2, <1>3, ClientKeepsKeyring, ApiKeepsKeyring DEF Next

(* AuthManager, for any number of processes that share the keyring: while no *)
(* answer is lost and no process is killed, a revoked token in the keyring is *)
(* going to be replaced or cleared, or a logout has ended its login.         *)
THEOREM KeyringUsableHolds == Spec => []KeyringUsable
<1>1. Init => TypeInv /\ KeyringInv
  BY InitType, KeyringInit
<1>2. TypeInv /\ KeyringInv /\ [Next]_vars => (TypeInv /\ KeyringInv)'
  BY NextType, KeyringNext
<1>3. TypeInv /\ KeyringInv => KeyringUsable
  BY DEF KeyringInv, KeyringUsable
<1> QED BY <1>1, <1>2, <1>3, PTL DEF Spec

=============================================================================
