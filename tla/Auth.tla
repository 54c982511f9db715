------------------------------- MODULE Auth -------------------------------
(***************************************************************************)
(* The credential store of lib/auth.cc and the token fields of class       *)
(* Request (lib/request.cc), shared by every thread that calls             *)
(* Auth::sendRequest: the FUSE handlers and the pool workers.  There is no *)
(* lock around them.                                                       *)
(*                                                                         *)
(* A string is a sequence of characters; character i of the k-th access   *)
(* token the endpoint issues is <<k, i>>, token 0 is the refresh token,    *)
(* Nul is the terminator and Garbled a string read while another thread    *)
(* assigned it.  struct AuthObj is its two char arrays of Cap bytes laid   *)
(* out one after the other (chars) and expires_in (exp), so a strcpy of a  *)
(* token of Cap characters or more runs on into refresh_token, as in the   *)
(* build.                                                                  *)
(***************************************************************************)
EXTENDS Integers, Sequences, FiniteSets, SequencesExt

CONSTANTS
    Threads,     \* callers of Auth::sendRequest
    Cap,         \* size of AuthObj's char arrays (100)
    AccessLens,  \* lengths of the access tokens the endpoint returns
    RefreshLen,  \* length of the refresh token
    Lifetime,    \* expires_in of a token answer (3600 s)
    Margin,      \* GDFS_OAUTH_ACCESS_TOKEN_TIMEOUT (300 s)
    MaxTime,     \* bound on the clock
    MaxNetFail,  \* bound on failed token requests
    MaxDiskFail, \* bound on failed opens of the auth file
    MaxRestart   \* bound on process exits

ASSUME /\ AccessLens \subseteq 1..(2 * Cap - 1)
       /\ RefreshLen \in 1..(Cap - 1)
       /\ Margin < Lifetime

Nul == <<0, 0>>
Garbled == << <<-1, 1>> >>
Token(k, n) == [i \in 1..n |-> <<k, i>>]
RefreshToken == Token(0, RefreshLen)

(* memset(&obj, 0, sizeof obj) *)
EmptyObj == [chars |-> [j \in 1..(2 * Cap) |-> Nul], exp |-> 0]

(* strcpy(m + off - 1, s) *)
StrCpy(m, off, s) ==
    [j \in DOMAIN m |->
        IF j - off + 1 \in 1..Len(s) THEN s[j - off + 1]
        ELSE IF j = off + Len(s) THEN Nul
        ELSE m[j]]

(* Mutant: the string keeps its terminator.                               *)
CStrWithTerminator(m, off) ==
    SubSeq(m, off, SelectInSubSeq(m, off, Len(m), LAMBDA c : c = Nul))

(* std::string(m + off - 1): the characters up to the first terminator.    *)
CStr(m, off) ==
    SubSeq(m, off, SelectInSubSeq(m, off, Len(m), LAMBDA c : c = Nul) - 1)

AccessOf(o) == CStr(o.chars, 1)
RefreshOf(o) == CStr(o.chars, Cap + 1)

(* strcpy access_token, set expires_in, strcpy refresh_token, in the order *)
(* of Request::getTokens and of renew_access_token.                        *)
AuthObjOf(acc, exp, ref) ==
    [chars |-> StrCpy(StrCpy(EmptyObj.chars, 1, acc), Cap + 1, ref),
     exp   |-> exp]

(* Mutant: a token with exactly Margin seconds left is kept.               *)
NearExpiryStrict(e, cur) == e - cur < Margin \/ cur >= e

(* The test of check_access_token.                                         *)
NearExpiry(e, cur) == e - cur <= Margin \/ cur >= e

VARIABLES
    now,          \* time(0)
    up,           \* initGDFS got past check_access_token: FUSE is serving
    accessToken,  \* Request::accessToken
    expiresIn,    \* Request::expiresIn
    refreshToken, \* Request::refreshToken
    authFile,     \* the AuthObj in /opt/gdfs/gdfs.auth
    issued,       \* access tokens the endpoint issued: [str, exp]
    pc,           \* where each thread is in Auth::sendRequest
    obj,          \* each thread's AuthObj
    checked,      \* time at which each thread ran check_access_token
    sent,         \* requests sent: Authorization token and check time
    netFail, diskFail, restarts

vars == <<now, up, accessToken, expiresIn, refreshToken, authFile, issued,
          pc, obj, checked, sent, netFail, diskFail, restarts>>

(* Mutant: setTokens forgets expiresIn.                                    *)
StoreTokensNoExpiry(acc, exp, ref) ==
    /\ accessToken' = acc
    /\ UNCHANGED expiresIn
    /\ refreshToken' = ref

(* The three assignments of Request::setTokens.                            *)
StoreTokens(acc, exp, ref) ==
    /\ accessToken' = acc
    /\ expiresIn' = exp
    /\ refreshToken' = ref

(* Threads other than t inside one assignment of Request::setTokens:      *)
(* phase "set" assigns accessToken, "setref" refreshToken.  A read of a    *)
(* std::string another thread is assigning is a data race: the build       *)
(* returns the old value, the new one, or a torn one.  expiresIn is one    *)
(* aligned word, stored between the two.                                   *)
Writers(t, phase) == {w \in Threads \ {t} : pc[w] = phase}
Racy(t, phase, cur, new) ==
    IF Writers(t, phase) = {} THEN {cur} ELSE {cur, Garbled} \cup new
ReadAccess(t) ==
    Racy(t, "set", accessToken, {AccessOf(obj[w]) : w \in Writers(t, "set")})
ReadRefresh(t) ==
    Racy(t, "setref", refreshToken,
         {RefreshOf(obj[w]) : w \in Writers(t, "setref")})

(* gauth's get_access_token has written the first token to the auth file. *)
Init ==
    /\ now = 0
    /\ up = FALSE
    /\ accessToken = <<>> /\ expiresIn = 0 /\ refreshToken = <<>>
    /\ \E n \in AccessLens :
          /\ issued = << [str |-> Token(1, n), exp |-> Lifetime] >>
          /\ authFile = AuthObjOf(Token(1, n), Lifetime, RefreshToken)
    /\ pc = [t \in Threads |-> "idle"]
    /\ obj = [t \in Threads |-> EmptyObj]
    /\ checked = [t \in Threads |-> 0]
    /\ sent = {}
    /\ netFail = 0 /\ diskFail = 0 /\ restarts = 0

Tick ==
    /\ now < MaxTime
    /\ now' = now + 1
    /\ UNCHANGED <<up, accessToken, expiresIn, refreshToken, authFile,
                   issued, pc, obj, checked, sent, netFail, diskFail, restarts>>

(* initGDFS on thread t: load_auth_file (fread, then setTokens), then      *)
(* check_access_token; FUSE starts serving unless a renewal is due, which  *)
(* t then performs.  A mount that fails leaves the filesystem unmounted.   *)
Mount(t) ==
    /\ ~up
    /\ \A u \in Threads : pc[u] = "idle"
    /\ StoreTokens(AccessOf(authFile), authFile.exp, RefreshOf(authFile))
    /\ \/ /\ NearExpiry(authFile.exp, now)
          /\ obj' = [obj EXCEPT ![t] = AuthObjOf(AccessOf(authFile),
                                    authFile.exp, RefreshOf(authFile))]
          /\ pc' = [pc EXCEPT ![t] = "post"]
          /\ UNCHANGED up
       \/ /\ ~NearExpiry(authFile.exp, now)
          /\ up' = TRUE
          /\ UNCHANGED <<pc, obj>>
    /\ UNCHANGED <<now, authFile, issued, checked, sent, netFail, diskFail,
                   restarts>>

(* Auth::sendRequest starts with check_access_token: read expiresIn; when  *)
(* the token is near its expiry, getTokens copies the strings into obj.    *)
CheckAccessToken(t) ==
    /\ up
    /\ pc[t] = "idle"
    /\ \/ /\ NearExpiry(expiresIn, now)
          /\ \E acc \in ReadAccess(t), ref \in ReadRefresh(t) :
                obj' = [obj EXCEPT ![t] = AuthObjOf(acc, expiresIn, ref)]
          /\ pc' = [pc EXCEPT ![t] = "post"]
       \/ /\ ~NearExpiry(expiresIn, now)
          /\ pc' = [pc EXCEPT ![t] = "send"]
          /\ UNCHANGED obj
    /\ checked' = [checked EXCEPT ![t] = now]
    /\ UNCHANGED <<now, up, accessToken, expiresIn, refreshToken, authFile,
                   issued, sent, netFail, diskFail, restarts>>

(* renew_access_token, the answered POST: the endpoint issues a token, obj *)
(* is cleared and refilled with it, expires_in = time(NULL) + expires_in   *)
(* and getRefreshToken(); setTokens begins.                                *)
RenewAccessToken(t) ==
    /\ pc[t] = "post"
    /\ RefreshOf(obj[t]) = RefreshToken
    /\ \E n \in AccessLens, ref \in ReadRefresh(t) :
          LET tok == Token(Len(issued) + 1, n)
          IN  /\ issued' = Append(issued, [str |-> tok, exp |-> now + Lifetime])
              /\ obj' = [obj EXCEPT ![t] = AuthObjOf(tok, now + Lifetime, ref)]
    /\ pc' = [pc EXCEPT ![t] = "set"]
    /\ UNCHANGED <<now, up, accessToken, expiresIn, refreshToken, authFile,
                   checked, sent, netFail, diskFail, restarts>>

(* renew_access_token throws: the POST failed or its answer has no         *)
(* access_token (always so for a refresh token the endpoint does not       *)
(* know).  The exception leaves Auth::sendRequest, or initGDFS.            *)
RenewFails(t) ==
    /\ pc[t] = "post"
    /\ RefreshOf(obj[t]) # RefreshToken \/ netFail < MaxNetFail
    /\ netFail' = IF RefreshOf(obj[t]) = RefreshToken THEN netFail + 1
                  ELSE netFail
    /\ pc' = [pc EXCEPT ![t] = "idle"]
    /\ UNCHANGED <<now, up, accessToken, expiresIn, refreshToken, authFile,
                   issued, obj, checked, sent, diskFail, restarts>>

(* Request::setTokens: the accessToken assignment completes (torn if      *)
(* another thread assigned it at the same time), then expiresIn is stored  *)
(* and the refreshToken assignment begins.                                 *)
SetTokens(t) ==
    /\ pc[t] = "set"
    /\ \E acc \in Racy(t, "set", AccessOf(obj[t]), {}) : accessToken' = acc
    /\ expiresIn' = obj[t].exp
    /\ pc' = [pc EXCEPT ![t] = "setref"]
    /\ UNCHANGED <<now, up, refreshToken, authFile, issued, obj, checked,
                   sent, netFail, diskFail, restarts>>

(* The refreshToken assignment of Request::setTokens completes.            *)
SetRefreshToken(t) ==
    /\ pc[t] = "setref"
    /\ \E ref \in Racy(t, "setref", RefreshOf(obj[t]), {}) :
          refreshToken' = ref
    /\ pc' = [pc EXCEPT ![t] = "save"]
    /\ UNCHANGED <<now, up, accessToken, expiresIn, authFile, issued, obj,
                   checked, sent, netFail, diskFail, restarts>>

(* fopen("wb"), fwrite(&obj), fclose; a failed fopen throws after the new  *)
(* token is already in memory.  Then check_access_token returns: to        *)
(* Auth::sendRequest, or to initGDFS, which mounts.                        *)
SaveAuthFile(t) ==
    /\ pc[t] = "save"
    /\ \/ /\ authFile' = obj[t]
          /\ pc' = [pc EXCEPT ![t] = IF up THEN "send" ELSE "idle"]
          /\ up' = TRUE
          /\ UNCHANGED diskFail
       \/ /\ diskFail < MaxDiskFail
          /\ diskFail' = diskFail + 1
          /\ pc' = [pc EXCEPT ![t] = "idle"]
          /\ UNCHANGED <<authFile, up>>
    /\ UNCHANGED <<now, accessToken, expiresIn, refreshToken, issued, obj,
                   checked, sent, netFail, restarts>>

(* Request::sendRequest puts "Authorization: Bearer " + accessToken on the *)
(* request.                                                                *)
SendRequest(t) ==
    /\ pc[t] = "send"
    /\ \E acc \in ReadAccess(t) :
          sent' = sent \cup {[str |-> acc, at |-> checked[t]]}
    /\ pc' = [pc EXCEPT ![t] = "idle"]
    /\ UNCHANGED <<now, up, accessToken, expiresIn, refreshToken, authFile,
                   issued, obj, checked, netFail, diskFail, restarts>>

(* The process exits, between any two steps; the auth file stays.          *)
Restart ==
    /\ restarts < MaxRestart
    /\ up \/ \E t \in Threads : pc[t] # "idle"
    /\ restarts' = restarts + 1
    /\ up' = FALSE
    /\ StoreTokens(<<>>, 0, <<>>)
    /\ pc' = [t \in Threads |-> "idle"]
    /\ obj' = [t \in Threads |-> EmptyObj]
    /\ UNCHANGED <<now, authFile, issued, checked, sent, netFail, diskFail>>

Next ==
    \/ Tick
    \/ Restart
    \/ \E t \in Threads :
          \/ Mount(t)
          \/ CheckAccessToken(t)
          \/ RenewAccessToken(t)
          \/ RenewFails(t)
          \/ SetTokens(t)
          \/ SetRefreshToken(t)
          \/ SaveAuthFile(t)
          \/ SendRequest(t)

Spec == Init /\ [][Next]_vars

-----------------------------------------------------------------------------
Chars == (Nat \cup {-1}) \X (1..(2 * Cap))

TypeOK ==
    /\ now \in 0..MaxTime
    /\ up \in BOOLEAN
    /\ accessToken \in Seq(Chars) /\ refreshToken \in Seq(Chars)
    /\ expiresIn \in Nat
    /\ pc \in [Threads -> {"idle", "post", "set", "setref", "save",
                           "send"}]
    /\ \A t \in Threads : obj[t].chars \in [1..(2 * Cap) -> Chars \cup {Nul}]
    /\ authFile.chars \in [1..(2 * Cap) -> Chars \cup {Nul}]

(* Every request goes out with an access token the endpoint issued, and    *)
(* that token still had more than Margin seconds left when the sending     *)
(* thread ran check_access_token: the token of an Authorization header is  *)
(* never torn, never cut, and never one check_access_token should have     *)
(* renewed.                                                                *)
SentWithFreshToken ==
    \A s \in sent :
        \E k \in 1..Len(issued) :
            /\ s.str = issued[k].str
            /\ issued[k].exp - s.at > Margin

(* The detailed store implements the atomic one of Credentials.            *)
Abstract == INSTANCE Credentials WITH
    Fresh <- LAMBDA k : {Token(k, n) : n \in AccessLens},
    token <- accessToken,
    expiry <- expiresIn,
    saved <- [tok |-> AccessOf(authFile), exp |-> authFile.exp],
    sent <- {s.str : s \in sent}
AbstractSpec == Abstract!Spec
====
