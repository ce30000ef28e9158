------------------------------- MODULE CliAuth -------------------------------
(***************************************************************************)
(* The CLI's device login: "envbasis login" obtains a code, the user        *)
(* approves or denies it in the browser while the CLI polls, and the        *)
(* approved code is exchanged for an access token and a refresh token.      *)
(* Refresh tokens are rotated; a logout revokes all of the same login.      *)
(*                                                                         *)
(* Every request of the API reads its rows in a transaction without locks   *)
(* and then updates them by primary key, so a request is two steps here: it *)
(* reads (Poll, Decide, SendRefresh, SendLogout) and it commits (Exchange,  *)
(* Decided, Rotate, Revoke).  All CLI processes share one keyring entry.    *)
(***************************************************************************)
EXTENDS Integers, Sequences, FiniteSets

CONSTANTS
  Logins,     \* rows of cli_auth_sessions that may be inserted
  Clis,       \* CLI processes of one machine, each one command at a time
  Browsers,   \* requests of the signed-in user: resolve, verify, deny
  None,       \* no login
  CodeTtl,    \* settings.cli_auth_device_code_ttl_seconds
  RefreshTtl, \* settings.cli_auth_refresh_token_ttl_seconds
  MaxTime,    \* bound on the clock
  MaxTokens,  \* bound on the refresh tokens issued
  MaxFaults   \* bound on lost answers and killed processes

ASSUME LoginsAssumption == None \notin Logins
ASSUME TtlAssumption == CodeTtl \in Nat \ {0} /\ RefreshTtl \in Nat \ {0}
ASSUME LimitsAssumption == MaxTime \in Nat /\ MaxTokens \in Nat /\ MaxFaults \in Nat

VARIABLES
  login,    \* the rows of cli_auth_sessions
  tokens,   \* the rows of cli_auth_refresh_tokens, in the order of their inserts
  keyring,  \* the refresh token of the stored session, 0: none
  cli,      \* each CLI process
  request,  \* the request each CLI process has in the API
  browser,  \* each request of the browser
  clock,
  faults,
  raced,    \* history: logins whose status was not what the last writer had read
  forked,   \* history: logins whose tokens were not what a writer had read
  ended,    \* history: logins that a logout has revoked
  approved  \* history: logins that the user's browser has approved

server == <<login, tokens>>
history == <<raced, forked, ended, approved>>
vars == <<login, tokens, keyring, cli, request, browser, clock, faults,
          raced, forked, ended, approved>>

-----------------------------------------------------------------------------
Statuses == {"none", "pending", "approved", "denied", "expired", "consumed"}
Login == [status: Statuses, expires: Nat]
Token == [login: Logins, root: BOOLEAN, revoked: BOOLEAN, expires: Nat]

(* A CLI process waits for its user ("login"), for the answer of the API    *)
(* ("polling", "refreshing", "leaving"), or is about to change the keyring.  *)
CliPhases == {"idle", "login", "polling", "refresh", "refreshing", "logout", "leaving",
              "save", "clear"}
Cli == [phase: CliPhases, login: Logins \cup {None}, token: Nat]
Resting == [phase |-> "idle", login |-> None, token |-> 0]

(* What a request has read: the status of its login or its token, the live  *)
(* tokens of the family.  "lost": nobody waits for the answer any more.     *)
Request == [phase: {"none", "exchange", "expire", "rotate", "revoke"},
            login: Logins \cup {None}, read: Statuses, token: Nat, rows: SUBSET Nat,
            lost: BOOLEAN]
NoRequest == [phase |-> "none", login |-> None, read |-> "none", token |-> 0,
              rows |-> {}, lost |-> FALSE]

Browser == [phase: {"ready", "approved", "denied", "expired", "done"},
            login: Logins \cup {None}, read: Statuses]

Terminal == {"denied", "expired", "consumed"}

(* expire_session_if_needed *)
Due(l) == login[l].status \in {"pending", "approved"} /\ login[l].expires =< clock

Live(t) == ~tokens[t].revoked
Active(t) == Live(t) /\ clock < tokens[t].expires
Family(l) == {t \in DOMAIN tokens : tokens[t].login = l}
Roots(l) == {t \in Family(l) : tokens[t].root}

SetCli(c, p) == cli' = [cli EXCEPT ![c] = p]
Ask(c, q) == request' = [request EXCEPT ![c] = q]

(* The answer reaches a CLI process that still waits for it.                *)
Answer(c, p) ==
  /\ cli' = IF request[c].lost THEN cli ELSE [cli EXCEPT ![c] = p]
  /\ Ask(c, NoRequest)

(* An UPDATE by primary key, whatever the status has become since.          *)
SetStatus(l, read, status) ==
  /\ login' = [login EXCEPT ![l].status = status]
  /\ raced' = IF login[l].status = read THEN raced ELSE raced \cup {l}

-----------------------------------------------------------------------------
Init ==
  /\ login = [l \in Logins |-> [status |-> "none", expires |-> 0]]
  /\ tokens = <<>>
  /\ keyring = 0
  /\ cli = [c \in Clis |-> Resting]
  /\ request = [c \in Clis |-> NoRequest]
  /\ browser = [b \in Browsers |-> [phase |-> "ready", login |-> None, read |-> "none"]]
  /\ clock = 0 /\ faults = 0
  /\ raced = {} /\ forked = {} /\ ended = {} /\ approved = {}

(* login: POST /cli/auth/start inserts a pending session. *)
Start(c) ==
  /\ cli[c].phase = "idle" /\ request[c].phase = "none"
  /\ clock + CodeTtl < MaxTime
  /\ \E l \in Logins :
       /\ login[l].status = "none"
       /\ login' = [login EXCEPT ![l] = [status |-> "pending", expires |-> clock + CodeTtl]]
       /\ SetCli(c, [phase |-> "login", login |-> l, token |-> 0])
  /\ UNCHANGED <<tokens, keyring, request, browser, clock, faults, history>>

(* Mutant: any code that is not final and has not run out is exchanged. *)
PollUndecided(c) ==
  LET l == cli[c].login
      s == login[l].status
  IN  /\ cli[c].phase = "login" /\ clock =< login[l].expires
      /\ \/ /\ s \in Terminal
            /\ SetCli(c, Resting) /\ UNCHANGED request
         \/ /\ s \notin Terminal /\ ~Due(l)
            /\ SetCli(c, [cli[c] EXCEPT !.phase = "polling"])
            /\ Ask(c, [NoRequest EXCEPT !.phase = "exchange", !.login = l, !.read = s])
      /\ UNCHANGED <<login, tokens, keyring, browser, clock, faults, history>>

(* POST /cli/auth/token reads the session.  An answer "authorization_pending" *)
(* or "slow_down" changes nothing but last_polled_at; a denied, expired or  *)
(* used code ends the command; an approved one is going to be exchanged.    *)
(* The CLI's deadline starts with the answer of "start", later than the     *)
(* server's, so a poll may still find that the code has run out.            *)
Poll(c) ==
  LET l == cli[c].login
      s == login[l].status
  IN  /\ cli[c].phase = "login" /\ clock =< login[l].expires
      /\ \/ /\ s \in Terminal
            /\ SetCli(c, Resting) /\ UNCHANGED request
         \/ /\ Due(l)
            /\ SetCli(c, [cli[c] EXCEPT !.phase = "polling"])
            /\ Ask(c, [NoRequest EXCEPT !.phase = "expire", !.login = l, !.read = s])
         \/ /\ s = "approved" /\ ~Due(l)
            /\ SetCli(c, [cli[c] EXCEPT !.phase = "polling"])
            /\ Ask(c, [NoRequest EXCEPT !.phase = "exchange", !.login = l, !.read = s])
      /\ UNCHANGED <<login, tokens, keyring, browser, clock, faults, history>>

(* "Login session expired": the CLI's own deadline. *)
LoginTimesOut(c) ==
  /\ cli[c].phase = "login" /\ login[cli[c].login].expires =< clock
  /\ SetCli(c, Resting)
  /\ UNCHANGED <<login, tokens, keyring, request, browser, clock, faults, history>>

(* Mutant: a rotated token does not carry its login on. *)
NewTokenLoose(l, root) ==
  [login |-> IF root THEN l ELSE None, root |-> root, revoked |-> FALSE,
   expires |-> clock + RefreshTtl]

NewToken(l, root) ==
  [login |-> l, root |-> root, revoked |-> FALSE, expires |-> clock + RefreshTtl]

(* The token pair is inserted and the session consumed. *)
Exchange(c) ==
  LET l == request[c].login
  IN  /\ request[c].phase = "exchange" /\ Len(tokens) < MaxTokens
      /\ tokens' = Append(tokens, NewToken(l, TRUE))
      /\ SetStatus(l, request[c].read, "consumed")
      /\ Answer(c, [phase |-> "save", login |-> l, token |-> Len(tokens) + 1])
      /\ UNCHANGED <<keyring, browser, clock, faults, forked, ended, approved>>

(* The poll that finds the code run out commits that and answers 410. *)
Expire(c) ==
  /\ request[c].phase = "expire"
  /\ SetStatus(request[c].login, request[c].read, "expired")
  /\ Answer(c, Resting)
  /\ UNCHANGED <<tokens, keyring, browser, clock, faults, forked, ended, approved>>

-----------------------------------------------------------------------------
(* Mutant: deny does not look at the status. *)
DecideAnyway(b) ==
  /\ browser[b].phase = "ready"
  /\ \E l \in Logins :
       LET s == login[l].status
           Reads(phase) == browser' = [browser EXCEPT ![b] = [phase |-> phase, login |-> l, read |-> s]]
       IN  /\ s # "none"
           /\ \/ s = "pending" /\ ~Due(l) /\ Reads("approved")
              \/ ~Due(l) /\ Reads("denied")
              \/ Due(l) /\ Reads("expired")
  /\ UNCHANGED <<login, tokens, keyring, cli, request, clock, faults, history>>

(* resolve, verify and deny read the session; the latter two answer 409     *)
(* when it is not pending.  All three record that it has run out.           *)
Decide(b) ==
  /\ browser[b].phase = "ready"
  /\ \E l \in Logins :
       LET s == login[l].status
           Reads(phase) == browser' = [browser EXCEPT ![b] = [phase |-> phase, login |-> l, read |-> s]]
       IN  /\ s # "none"
           /\ \/ s = "pending" /\ ~Due(l) /\ (Reads("approved") \/ Reads("denied"))
              \/ Due(l) /\ Reads("expired")
  /\ UNCHANGED <<login, tokens, keyring, cli, request, clock, faults, history>>

(* ... and commit. *)
Decided(b) ==
  /\ browser[b].phase \in {"approved", "denied", "expired"}
  /\ SetStatus(browser[b].login, browser[b].read, browser[b].phase)
  /\ browser' = [browser EXCEPT ![b].phase = "done"]
  /\ approved' = IF browser[b].phase = "approved" THEN approved \cup {browser[b].login}
                 ELSE approved
  /\ UNCHANGED <<tokens, keyring, cli, request, clock, faults, forked, ended>>

-----------------------------------------------------------------------------
(* A command finds that the access token runs out soon, or is told 401, and *)
(* refreshes the session it has read from the keyring.                      *)
Refresh(c) ==
  /\ cli[c].phase = "idle" /\ request[c].phase = "none" /\ keyring # 0
  /\ SetCli(c, [phase |-> "refresh", login |-> None, token |-> keyring])
  /\ UNCHANGED <<server, keyring, request, browser, clock, faults, history>>

(* get_active_refresh_token_with_user: 401 for a revoked or expired token.  *)
SendRefresh(c) ==
  LET t == cli[c].token
  IN  /\ cli[c].phase = "refresh"
      /\ \/ /\ Active(t)
            /\ SetCli(c, [cli[c] EXCEPT !.phase = "refreshing"])
            /\ Ask(c, [NoRequest EXCEPT !.phase = "rotate", !.login = tokens[t].login, !.token = t])
         \/ /\ ~Active(t)
            /\ SetCli(c, [cli[c] EXCEPT !.phase = "clear"])
            /\ UNCHANGED request
      /\ UNCHANGED <<server, keyring, browser, clock, faults, history>>

(* Mutant: the old token stays. *)
RotateKeeping(c) ==
  LET t == request[c].token
      l == request[c].login
  IN  /\ request[c].phase = "rotate" /\ Len(tokens) < MaxTokens
      /\ tokens' = Append(tokens, NewToken(l, FALSE))
      /\ forked' = IF Live(t) THEN forked ELSE forked \cup {l}
      /\ Answer(c, [phase |-> "save", login |-> l, token |-> Len(tokens) + 1])
      /\ UNCHANGED <<login, keyring, browser, clock, faults, raced, ended, approved>>

(* rotate_cli_refresh_token: the old token is revoked, a new one inserted.  *)
Rotate(c) ==
  LET t == request[c].token
      l == request[c].login
  IN  /\ request[c].phase = "rotate" /\ Len(tokens) < MaxTokens
      /\ tokens' = Append([tokens EXCEPT ![t].revoked = TRUE], NewToken(l, FALSE))
      /\ forked' = IF Live(t) THEN forked ELSE forked \cup {l}
      /\ Answer(c, [phase |-> "save", login |-> l, token |-> Len(tokens) + 1])
      /\ UNCHANGED <<login, keyring, browser, clock, faults, raced, ended, approved>>

(* logout reads the keyring; with no session in it there is only the local  *)
(* entry to clear.                                                          *)
Logout(c) ==
  /\ cli[c].phase = "idle" /\ request[c].phase = "none"
  /\ keyring # 0
  /\ SetCli(c, [phase |-> "logout", login |-> None, token |-> keyring])
  /\ UNCHANGED <<server, keyring, request, browser, clock, faults, history>>

(* revoke_refresh_token_family selects the live tokens of the login, also   *)
(* when the presented one is no longer live ...                             *)
SendLogout(c) ==
  LET t == cli[c].token
      l == tokens[t].login
  IN  /\ cli[c].phase = "logout"
      /\ SetCli(c, [cli[c] EXCEPT !.phase = "leaving"])
      /\ Ask(c, [NoRequest EXCEPT !.phase = "revoke", !.login = l, !.token = t,
                                  !.rows = {u \in Family(l) : Live(u)}])
      /\ UNCHANGED <<server, keyring, browser, clock, faults, history>>

(* Mutant: only the presented token is revoked. *)
RevokeOne(c) ==
  LET l == request[c].login
      rows == request[c].rows
  IN  /\ request[c].phase = "revoke"
      /\ tokens' = [tokens EXCEPT ![request[c].token].revoked = TRUE]
      /\ forked' = IF \E t \in Family(l) \ rows : Live(t) THEN forked \cup {l} ELSE forked
      /\ ended' = ended \cup {l}
      /\ Answer(c, [phase |-> "clear", login |-> None, token |-> request[c].token])
      /\ UNCHANGED <<login, keyring, browser, clock, faults, raced, approved>>

(* ... and revokes these. *)
Revoke(c) ==
  LET l == request[c].login
      rows == request[c].rows
  IN  /\ request[c].phase = "revoke"
      /\ tokens' = [t \in DOMAIN tokens |->
                      IF t \in rows THEN [tokens[t] EXCEPT !.revoked = TRUE] ELSE tokens[t]]
      /\ forked' = IF \E t \in Family(l) \ rows : Live(t) THEN forked \cup {l} ELSE forked
      /\ ended' = ended \cup {l}
      /\ Answer(c, [phase |-> "clear", login |-> None, token |-> request[c].token])
      /\ UNCHANGED <<login, keyring, browser, clock, faults, raced, approved>>

(* Mutant: a refreshed session is not stored. *)
SaveFirst(c) ==
  /\ cli[c].phase = "save"
  /\ keyring' = IF keyring = 0 THEN cli[c].token ELSE keyring
  /\ SetCli(c, Resting)
  /\ UNCHANGED <<server, request, browser, clock, faults, history>>

(* save_session, after _confirm_login when the command is a login.  A       *)
(* command that refreshed because of a 401 asks again, and clears the       *)
(* keyring when it is told 401 once more.                                   *)
Save(c) ==
  /\ cli[c].phase = "save"
  /\ keyring' = cli[c].token
  /\ \/ SetCli(c, Resting)
     \/ /\ ~tokens[cli[c].token].root
        /\ SetCli(c, [phase |-> "clear", login |-> None, token |-> cli[c].token])
  /\ UNCHANGED <<server, request, browser, clock, faults, history>>

(* clear_session, after a logout, a refresh that failed and a second 401:   *)
(* whatever the keyring holds by then.                                      *)
Clear(c) ==
  /\ cli[c].phase = "clear"
  /\ keyring' = 0
  /\ SetCli(c, Resting)
  /\ UNCHANGED <<server, request, browser, clock, faults, history>>

(* No answer within the timeout of the HTTP client; the API may still be    *)
(* working on the request.  A login ends, a failed refresh clears the       *)
(* keyring, a logout goes on without the server.                            *)
NoAnswer(c) ==
  /\ cli[c].phase \in {"polling", "refreshing", "leaving"} /\ faults < MaxFaults
  /\ faults' = faults + 1
  /\ SetCli(c, IF cli[c].phase = "polling" THEN Resting ELSE [cli[c] EXCEPT !.phase = "clear"])
  /\ request' = [request EXCEPT ![c].lost = TRUE]
  /\ UNCHANGED <<server, keyring, browser, clock, history>>

(* The process is killed, or the GET of _confirm_login fails. *)
Killed(c) ==
  /\ cli[c].phase # "idle" /\ faults < MaxFaults
  /\ faults' = faults + 1
  /\ SetCli(c, Resting)
  /\ request' = [request EXCEPT ![c].lost = (request[c].phase # "none")]
  /\ UNCHANGED <<server, keyring, browser, clock, history>>

Tick ==
  /\ clock < MaxTime
  /\ clock' = clock + 1
  /\ UNCHANGED <<server, keyring, cli, request, browser, faults, history>>

-----------------------------------------------------------------------------
Api(c) == Exchange(c) \/ Expire(c) \/ Rotate(c) \/ Revoke(c)
Client(c) == Poll(c) \/ LoginTimesOut(c) \/ SendRefresh(c) \/ SendLogout(c) \/ Save(c) \/ Clear(c)
Command(c) == Start(c) \/ Refresh(c) \/ Logout(c)

Next ==
  \/ \E c \in Clis : Command(c) \/ Client(c) \/ Api(c) \/ NoAnswer(c) \/ Killed(c)
  \/ \E b \in Browsers : Decide(b) \/ Decided(b)
  \/ Tick

Spec == Init /\ [][Next]_vars

-----------------------------------------------------------------------------
(* Rows hold what their columns hold; a process and a request refer to rows *)
(* that exist.                                                              *)
TypeOK ==
  /\ login \in [Logins -> Login]
  /\ tokens \in Seq(Token)
  /\ keyring \in 0 .. Len(tokens)
  /\ cli \in [Clis -> Cli] /\ \A c \in Clis : cli[c].token =< Len(tokens)
  /\ request \in [Clis -> Request]
  /\ browser \in [Browsers -> Browser]
  /\ clock \in Nat /\ faults \in Nat
  /\ raced \subseteq Logins /\ forked \subseteq Logins
  /\ ended \subseteq Logins /\ approved \subseteq Logins

(* "approved requests must be consumed exactly once"                        *)
(* (console/plan_cli_login.md:151): however polls, lost answers and         *)
(* decisions of the browser overlap, a login gives one first token at most, *)
(* and is consumed only if it gave one; it stays consumed then unless the   *)
(* browser had read it before.                                              *)
ConsumedOnce ==
  \A l \in Logins :
    /\ Cardinality(Roots(l)) =< 1
    /\ login[l].status = "consumed" => Roots(l) # {}
    /\ Roots(l) # {} => login[l].status = "consumed" \/ l \in raced

(* verify_cli_auth: whatever is denied, run out, polled and refreshed at    *)
(* the same time, every token, rotated ones too, is of a login that the     *)
(* user has approved.                                                       *)
ApprovedFirst == \A t \in DOMAIN tokens : tokens[t].login \in approved

(* "logout revokes CLI session" (console/plan_cli_login.md:349): after it   *)
(* no token of the login is live, the orphans of lost answers included,     *)
(* unless a refresh of the same login overlapped with it.                   *)
LogoutEnds ==
  \A l \in ended \ forked : \A t \in Family(l) : ~Live(t)

(* rotate_cli_refresh_token: a login has one live refresh token at a time,  *)
(* unless two requests changed its tokens from the same read.               *)
OneLiveToken ==
  \A l \in Logins \ forked : Cardinality({t \in Family(l) : Live(t)}) =< 1

(* Without lost answers and kills the CLI never leaves a revoked session in *)
(* the keyring: whoever had it revoked is still going to save the next one, *)
(* or to clear the entry.  Only a logout that overlaps with a refresh may.  *)
KeyringUsable ==
  faults = 0 /\ keyring # 0 /\ ~Live(keyring) =>
    \/ tokens[keyring].login \in ended
    \/ \E c \in Clis : cli[c].phase \in {"save", "clear"} \/ cli[c].token = keyring

=============================================================================
