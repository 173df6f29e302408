-------------------------------- MODULE OAuth --------------------------------
(***************************************************************************)
(* Tokens that are granted, refreshed and kept in a file                   *)
(* (libUseful/OAuth.c).  Several processes use one file of credentials:    *)
(* the last line of a name counts, and who finds too many lines of its     *)
(* name writes the file anew.  An access token and the refresh token that  *)
(* came with it are one number, and a newer grant makes older ones void.   *)
(***************************************************************************)
EXTENDS Integers, SequencesExt, FiniteSetsExt

CONSTANTS
  Users,      \* the processes
  NameOf,     \* Name of the OAUTH that each uses
  MaxOld,     \* lines of a name that are too many: more than 5
  MaxLogins,  \* bound
  MaxGrants,  \* bound: grants of a name
  MaxLines    \* bound: lines of the file

ASSUME OAuthAssumption == {MaxOld, MaxLogins, MaxGrants, MaxLines} \subseteq Nat

VARIABLES
  creds,    \* the lines of SavePath
  flocks,   \* flock(2): <<process, "SH" or "EX">>
  oauthAt,  \* where each process is
  access,   \* AccessToken, 0 for none
  tokens,   \* refresh_token and access_token of Vars
  code,     \* code of Vars
  awaited,  \* session of Vars, the login that OAuthStage1 began
  items,    \* what OAuthCleanupCredsFile has read
  current,  \* the server's token of each name
  codes,    \* codes it gave out and that were not used yet
  logins,   \* number of logins begun
  crossed   \* history: names of which two processes used tokens at a time, or one was killed

oauthVars == <<creds, flocks, oauthAt, access, tokens, code, awaited, items, current, codes,
               logins, crossed>>

Names == {NameOf[u] : u \in Users} \cup {"other"}
NoCode == 0
CredsLine(name, token, c) == [name |-> name, token |-> token, code |-> c]
LinesOf(file, name) == {k \in DOMAIN file : file[k].name = name}
TokenOf(file, name) == LET mine == LinesOf(file, name)
                       IN  IF mine = {} THEN 0 ELSE file[Max(mine)].token

At(u, place) == oauthAt[u] = place
Enters(u, place) == oauthAt' = [oauthAt EXCEPT ![u] = place]
Put(f, u, x) == [f EXCEPT ![u] = x]

-----------------------------------------------------------------------------
(* The file                                                                *)

\* STREAMLock waits, and STREAMClose lets go.
FileLock(u, kind) ==
  /\ \A l \in flocks : l[1] # u => "EX" \notin {kind, l[2]}
  /\ flocks' = flocks \cup {<<u, kind>>}
Unlocked(u) == flocks' = {l \in flocks : l[1] # u}

Still == UNCHANGED <<access, tokens, code, awaited, current, codes, logins, crossed>>

\* OAuthLoad. OAuthParse takes what the lines name over what Vars had before.
LoadLock(u) ==
  /\ At(u, "idle") /\ FileLock(u, "SH") /\ Enters(u, "load")
  /\ UNCHANGED <<creds, items>> /\ Still

OAuthLoad(u) ==
  /\ At(u, "load")
  /\ LET mine == LinesOf(creds, NameOf[u])
         coded == {k \in mine : creds[k].code # NoCode}
     IN  /\ access' = Put(access, u, TokenOf(creds, NameOf[u]))
         /\ tokens' = (IF mine = {} THEN tokens ELSE Put(tokens, u, TokenOf(creds, NameOf[u])))
         /\ code' = (IF coded = {} THEN code ELSE Put(code, u, creds[Max(coded)].code))
         /\ Enters(u, IF Cardinality(mine) > MaxOld THEN "clean" ELSE "idle")
  /\ Unlocked(u)
  /\ UNCHANGED <<creds, items, awaited, current, codes, logins, crossed>>

\* The names in the order in which they are met first, each with its last line.
WithLine(list, l) ==
  IF LinesOf(list, l.name) # {}
  THEN [k \in DOMAIN list |-> IF list[k].name = l.name THEN l ELSE list[k]]
  ELSE Append(list, l)
Cleaned(file) ==
  LET clean[k \in 0..Len(file)] == IF k = 0 THEN <<>> ELSE WithLine(clean[k - 1], file[k])
  IN  clean[Len(file)]

\* OAuthCleanupCredsFile: lock, read, truncate, and write a line at a time.
CleanupLock(u) ==
  /\ At(u, "clean") /\ FileLock(u, "EX") /\ Enters(u, "gather")
  /\ UNCHANGED <<creds, items>> /\ Still
CleanupRead(u) ==
  /\ At(u, "gather") /\ items' = Put(items, u, Cleaned(creds)) /\ Enters(u, "truncate")
  /\ UNCHANGED <<creds, flocks>> /\ Still
CleanupTruncate(u) ==
  /\ At(u, "truncate") /\ creds' = <<>> /\ Enters(u, "rewrite")
  /\ UNCHANGED <<items, flocks>> /\ Still
CleanupWrite(u) ==
  /\ At(u, "rewrite")
  /\ IF items[u] # <<>>
     THEN /\ creds' = Append(creds, Head(items[u])) /\ items' = Put(items, u, Tail(items[u]))
          /\ UNCHANGED <<flocks, oauthAt>>
     ELSE Unlocked(u) /\ Enters(u, "idle") /\ UNCHANGED <<creds, items>>
  /\ Still

\* A variant of SaveLock below with a slip in it, used by nothing: the property is
\* tried with it in the place of SaveLock.
SavesUnlocked(u) ==
  /\ At(u, "save") /\ Enters(u, "write")
  /\ UNCHANGED <<creds, items, flocks>> /\ Still

\* OAuthSave appends what Vars has.
SaveLock(u) ==
  /\ At(u, "save") /\ FileLock(u, "EX") /\ Enters(u, "write")
  /\ UNCHANGED <<creds, items>> /\ Still
OAuthSave(u) ==
  /\ At(u, "write") /\ Len(creds) < MaxLines
  /\ creds' = Append(creds, CredsLine(NameOf[u], tokens[u], code[u]))
  /\ Unlocked(u) /\ Enters(u, "idle")
  /\ UNCHANGED items /\ Still

-----------------------------------------------------------------------------
(* Logging in                                                              *)

SameFile == UNCHANGED <<creds, flocks, items>>

\* OAuthStage1: a new session, and the URL the user is to visit.
OAuthStage1(u) ==
  /\ At(u, "idle") /\ logins < MaxLogins
  /\ logins' = logins + 1 /\ awaited' = Put(awaited, u, logins + 1)
  /\ codes' = codes \cup {logins + 1}
  /\ Enters(u, "await")
  /\ SameFile /\ UNCHANGED <<access, tokens, code, current, crossed>>

\* OAuthAwaitRedirect: a browser comes with the code of some session and with its state,
\* or the user types a code, or the browser comes with nothing; OAuthFinalize is next.
OAuthAwaitRedirect(u) ==
  /\ At(u, "await")
  /\ \/ \E session \in 1..logins :
          code' = (IF session = awaited[u] THEN Put(code, u, session) ELSE code)
     \/ code' = Put(code, u, awaited[u])
     \/ UNCHANGED code
  /\ Enters(u, "finalize")
  /\ SameFile /\ UNCHANGED <<access, tokens, awaited, current, codes, logins, crossed>>

-----------------------------------------------------------------------------
(* Grants                                                                  *)

Busy == {"granted", "save", "write"}
Name(u) == NameOf[u]

\* The tokens of the name are somebody else's business at the same time.
Crosses(u) ==
  \/ tokens[u] \notin {0, current[Name(u)]}
  \/ \E v \in Users \ {u} : NameOf[v] = Name(u) /\ oauthAt[v] \in Busy

\* OAuthGrant and OAuthParseReply: new tokens, or the reply has none, belongs to another
\* session, cannot be parsed or does not come, and all stays as it is.
GrantReply(u, may) ==
  \/ /\ may /\ current[Name(u)] < MaxGrants
     /\ current' = Put(current, Name(u), current[Name(u)] + 1)
     /\ access' = Put(access, u, current'[Name(u)]) /\ tokens' = Put(tokens, u, current'[Name(u)])
  \/ UNCHANGED <<current, access, tokens>>

OAuthGrant(u, may) ==
  /\ GrantReply(u, may)
  /\ crossed' = (IF Crosses(u) THEN crossed \cup {Name(u)} ELSE crossed)
  /\ Enters(u, "granted")
  /\ SameFile /\ UNCHANGED <<code, awaited, logins>>

\* OAuthRefresh: with a refresh_token that is void there is none.
OAuthRefresh(u) ==
  /\ At(u, "idle") /\ tokens[u] # 0
  /\ OAuthGrant(u, tokens[u] = current[Name(u)]) /\ UNCHANGED codes

\* OAuthFinalize: a code is good for one time.
OAuthFinalize(u) ==
  /\ At(u, "finalize")
  /\ OAuthGrant(u, code[u] \in codes) /\ codes' = codes \ {code[u]}

\* Both save whatever came of it, if there is an access token of now or before.
Granted(u) ==
  /\ At(u, "granted")
  /\ Enters(u, IF access[u] # 0 THEN "save" ELSE "idle")
  /\ SameFile /\ UNCHANGED <<access, tokens, code, awaited, current, codes, logins, crossed>>

-----------------------------------------------------------------------------
\* A process is killed and another takes its place, with an OAUTH that is empty.
Killed(u) ==
  /\ oauthAt[u] # "idle"
  /\ Enters(u, "idle") /\ Unlocked(u)
  /\ access' = Put(access, u, 0) /\ tokens' = Put(tokens, u, 0) /\ code' = Put(code, u, NoCode)
  /\ items' = Put(items, u, <<>>)
  /\ crossed' = crossed \cup (IF At(u, "rewrite") THEN Names
                              ELSE IF oauthAt[u] \in Busy THEN {Name(u)} ELSE {})
  /\ UNCHANGED <<creds, awaited, current, codes, logins>>

OAuthInit ==
  /\ creds = <<CredsLine("other", 1, NoCode)>> /\ flocks = {}
  /\ oauthAt = [u \in Users |-> "idle"]
  /\ access = [u \in Users |-> 0] /\ tokens = access /\ code = access /\ awaited = access
  /\ items = [u \in Users |-> <<>>]
  /\ current = [n \in Names |-> IF n = "other" THEN 1 ELSE 0]
  /\ codes = {} /\ logins = 0 /\ crossed = {}

OAuthNext ==
  \E u \in Users :
    \/ LoadLock(u) \/ OAuthLoad(u)
    \/ CleanupLock(u) \/ CleanupRead(u) \/ CleanupTruncate(u) \/ CleanupWrite(u)
    \/ SaveLock(u) \/ OAuthSave(u)
    \/ OAuthStage1(u) \/ OAuthAwaitRedirect(u)
    \/ OAuthRefresh(u) \/ OAuthFinalize(u) \/ Granted(u)
    \/ Killed(u)

OAuthSpec == OAuthInit /\ [][OAuthNext]_oauthVars

-----------------------------------------------------------------------------
(* Properties                                                              *)

OAuthTypeOK ==
  /\ oauthAt \in [Users -> {"idle", "load", "clean", "gather", "truncate", "rewrite", "save", "write",
                            "await", "finalize", "granted"}]
  /\ \A k \in DOMAIN creds : creds[k].name \in Names
  /\ flocks \subseteq Users \X {"SH", "EX"} /\ crossed \subseteq Names
  /\ \A u \in Users : code[u] \in 0..logins /\ tokens[u] \in 0..current[Name(u)]

\* The file ends with the tokens that the server honours, whoever saves, loads or writes
\* it anew at the same time, but for a name whose tokens two processes used at once or
\* one that was killed had not saved yet.
Writing == \E u \in Users : oauthAt[u] = "rewrite"
Unsaved(name) == \E u \in Users : NameOf[u] = name /\ oauthAt[u] \in Busy
CredsKept ==
  ~Writing =>
    \A n \in Names \ crossed :
      ~Unsaved(n) => TokenOf(creds, n) = current[n]

\* One process at a time writes the file, and nobody reads it then.
OneWriter == \A l, m \in flocks : l # m => {l[2], m[2]} = {"SH"}

TokensKept == CredsKept /\ OneWriter
=============================================================================
