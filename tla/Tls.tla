--------------------------------- MODULE Tls ---------------------------------
(***************************************************************************)
(* TLS on a stream (libUseful/OpenSSL.c): what the two ends allow, the     *)
(* handshake that is tried a few times and goes on by itself when bytes    *)
(* are written, what is noted of the peer's certificate, and which bytes   *)
(* leave how.  OpenSSL is modelled from how it is used: a call of it ends, *)
(* wants more from the peer, or fails.                                     *)
(***************************************************************************)
EXTENDS Integers, FiniteSetsExt

CONSTANTS
  Levels,    \* values of SSL:Level: "" for none, and any other word
  Versions,  \* sets of versions that peers speak: SSL 3 is 9, TLS 1.0 10, ... TLS 1.3 13
  Certs      \* [given, names, by]: the peer's certificate, whether it names the host, and the root of
             \* its chain: "system", "own", or "nobody" for none and all that is wrong with it

ASSUME TlsAssumption == \A v \in Versions : v \subseteq 9..13

VARIABLES
  end,         \* "client" or "server"
  levels,      \* SSL:Level of the stream and of the library
  trust,       \* SSL:VerifyFile of the stream and of the library: the root that is in it, "" for none
  peerSpeaks, peerCert,
  able,        \* libssl is there, and SSL_CTX_new does not fail
  tlsAt,       \* "init", "try", "settle", "note", "open", "over"
  tries,       \* i
  handshake,   \* "begun", "done" or "failed"
  certCame,    \* the certificate has been received
  version,     \* the version agreed on, 0 before
  tlsResult,   \* what the negotiation returns
  ssSsl,       \* SS_SSL
  sslObj,      \* LIBUSEFUL-SSL:OBJ
  verified,    \* SSL:CertificateVerify: "", "OK" or "error"
  cipher,      \* SSL:Cipher is set
  wrote        \* history: how bytes left: "cipher", "clear"

tlsInputs == <<end, levels, trust, peerSpeaks, peerCert, able>>
tlsVars == <<tlsInputs, tlsAt, tries, handshake, certCame, version, tlsResult, ssSsl, sslObj, verified,
             cipher, wrote>>

-----------------------------------------------------------------------------
(* Settings                                                                *)

\* INTERNAL_SSL_INIT: with no level, "tls".
LibraryLevel == IF levels.library = "" THEN "tls" ELSE levels.library

\* The level that OpenSSLSetOptions takes, and the least version it stands for.
LevelSet == IF levels.stream # "" THEN levels.stream ELSE LibraryLevel
LeastOf(level) ==
  CASE level = "ssl" -> 9 [] level = "tls1.1" -> 11 [] level = "tls1.2" -> 12 [] level = "tls1.3" -> 13
    [] OTHER -> 10
OpenSSLSetOptions == LeastOf(LevelSet)

\* STREAM_INTERNAL_SSL_ADD_SECURE_KEYS: the stream's list is looked through after the
\* library's, and what is found last is added to the system's roots.
Roots == {"system", IF trust.stream # "" THEN trust.stream ELSE trust.library}

Agreed == {v \in peerSpeaks : v >= OpenSSLSetOptions}

-----------------------------------------------------------------------------
(* The handshake                                                           *)

\* OpenSSLVerifyCallback lets all certificates pass, so that it never fails for one.
Step(how) ==
  \/ how = "done" /\ Agreed # {} /\ handshake' = "done" /\ certCame' = peerCert.given /\ version' = Max(Agreed)
  \/ how = "wants" /\ Agreed # {} /\ handshake' = "begun" /\ UNCHANGED version
     /\ certCame' \in {certCame, peerCert.given}
  \/ how = "failed" /\ handshake' = "failed" /\ UNCHANGED <<certCame, version>>

Same == handshake # "begun" /\ UNCHANGED <<handshake, certCame, version>>

\* Without an SSL_CTX both negotiations return FALSE, which STREAMDoPostConnect does
\* not look at: the stream is connected, and not one of TLS.
Starts ==
  /\ tlsAt = "init" /\ sslObj' = able
  /\ IF able THEN tlsAt' = "try" /\ UNCHANGED tlsResult ELSE tlsAt' = "open" /\ tlsResult' = "FALSE"
  /\ UNCHANGED <<tlsInputs, tries, handshake, certCame, version, ssSsl, verified, cipher, wrote>>

\* DoSSLClientNegotiation calls SSL_connect up to four times while it wants more.
ConnectTries == 4
ClientTries ==
  /\ end = "client" /\ tlsAt = "try" /\ tries' = tries + 1
  /\ \/ Step("done") /\ tlsAt' = "settle"
     \/ Step("failed") /\ tlsAt' = "settle"
     \/ Step("wants") /\ tlsAt' = (IF tries + 1 = ConnectTries THEN "settle" ELSE "try")
  /\ UNCHANGED <<tlsInputs, tlsResult, ssSsl, sslObj, verified, cipher, wrote>>

\* SSL_do_handshake, once more; its result is the one that counts, and SS_SSL is set.
ClientSettles ==
  /\ end = "client" /\ tlsAt = "settle"
  /\ Same \/ (handshake = "begun" /\ \E how \in {"done", "wants", "failed"} : Step(how))
  /\ tlsResult' = (IF handshake' = "done" THEN "TRUE" ELSE "error")
  /\ ssSsl' = TRUE /\ tlsAt' = "note"
  /\ UNCHANGED <<tlsInputs, tries, sslObj, verified, cipher, wrote>>

\* DoSSLServerNegotiation goes on as long as more is wanted. SSL_ERROR_SSL is TRUE.
ServerTries ==
  /\ end = "server" /\ tlsAt = "try" /\ UNCHANGED tries
  /\ \/ /\ Step("wants") /\ UNCHANGED <<tlsAt, tlsResult, ssSsl>>
     \/ /\ Step("done") /\ tlsAt' = "note" /\ tlsResult' = "TRUE" /\ ssSsl' = TRUE
     \/ /\ Step("failed") /\ \/ tlsAt' = "note" /\ tlsResult' = "TRUE" /\ ssSsl' = TRUE
                             \/ tlsAt' = "open" /\ tlsResult' = "FALSE" /\ UNCHANGED ssSsl
  /\ UNCHANGED <<tlsInputs, sslObj, verified, cipher, wrote>>

-----------------------------------------------------------------------------
(* The certificate                                                         *)

\* LU_SSL_VERIFY_HOSTNAME is only passed by the client.
HostMatches == end = "server" \/ peerCert.names
ChainHolds == peerCert.by \in Roots

\* OpenSSLVerifyCertificate
Verdict ==
  IF ~certCame THEN "error" ELSE IF HostMatches /\ ChainHolds THEN "OK" ELSE "error"

\* OpenSSLQueryCipher and OpenSSLVerifyCertificate, whose results are not looked at.
Notes ==
  /\ tlsAt = "note" /\ tlsAt' = "open"
  /\ verified' = Verdict /\ cipher' = (handshake = "done")
  /\ UNCHANGED <<tlsInputs, tries, handshake, certCame, version, tlsResult, ssSsl, sslObj, wrote>>

OpenSSLIsPeerAuth == sslObj /\ certCame /\ ChainHolds

-----------------------------------------------------------------------------
(* The stream                                                              *)

\* OpenSSLSTREAMWriteBytes: SSL_write goes on with a handshake that is not over. Without
\* SS_SSL they leave as they are.
WritesBytes ==
  /\ tlsAt = "open"
  /\ IF ssSsl
     THEN /\ Same \/ (handshake = "begun" /\ \E how \in {"done", "wants", "failed"} : Step(how))
          /\ wrote' = (IF handshake' = "done" THEN wrote \cup {"cipher"} ELSE wrote)
     ELSE wrote' = wrote \cup {"clear"} /\ UNCHANGED <<handshake, certCame, version>>
  /\ UNCHANGED <<tlsInputs, tlsAt, tries, tlsResult, ssSsl, sslObj, verified, cipher>>

OpenSSLClose ==
  /\ tlsAt = "open" /\ tlsAt' = "over" /\ sslObj' = FALSE /\ ssSsl' = FALSE
  /\ UNCHANGED <<tlsInputs, tries, handshake, certCame, version, tlsResult, verified, cipher, wrote>>

TlsInit ==
  /\ end \in {"client", "server"}
  /\ levels \in [stream : Levels, library : Levels]
  /\ trust \in [stream : {"", "own", "other"}, library : {"", "own", "other"}]
  /\ peerSpeaks \in Versions /\ peerCert \in Certs /\ able \in BOOLEAN
  /\ tlsAt = "init" /\ tries = 0 /\ handshake = "begun" /\ certCame = FALSE /\ version = 0
  /\ tlsResult = "none" /\ ssSsl = FALSE /\ sslObj = FALSE /\ verified = "" /\ cipher = FALSE /\ wrote = {}

TlsNext ==
  \/ Starts \/ ClientTries \/ ClientSettles \/ ServerTries \/ Notes \/ WritesBytes \/ OpenSSLClose
TlsSpec == TlsInit /\ [][TlsNext]_tlsVars

-----------------------------------------------------------------------------
(* Properties                                                              *)

TlsTypeOK ==
  /\ tlsAt \in {"init", "try", "settle", "note", "open", "over"} /\ tries \in 0..ConnectTries
  /\ handshake \in {"begun", "done", "failed"} /\ version \in {0} \cup 9..13
  /\ verified \in {"", "OK", "error"} /\ wrote \subseteq {"cipher", "clear"}
  /\ tlsResult \in {"none", "TRUE", "FALSE", "error"}

\* No byte leaves in the clear after a negotiation that did not say FALSE, nor from a
\* client whose negotiation fails, is late or goes on later, but for one that had
\* nothing to negotiate with (~able); the version is not below what the stream, or
\* else the library, was set to.
KeptSecret ==
  /\ "clear" \in wrote => tlsResult = "FALSE" /\ (end = "server" \/ ~able)
  /\ version # 0 =>
       version >= LeastOf(IF levels.stream # "" THEN levels.stream
                          ELSE IF levels.library # "" THEN levels.library ELSE "tls")
  /\ tlsResult = "TRUE" /\ end = "client" => handshake = "done"

\* A certificate that is noted as OK has come, is trusted, and, at a client, names the
\* host; the peer of a connection whose certificate is OK passes OpenSSLIsPeerAuth.
OkIsOk ==
  /\ verified = "OK" =>
       /\ certCame /\ peerCert.given /\ peerCert.by # "nobody"
       /\ peerCert.by = "own" => trust.stream = "own" \/ (trust.stream = "" /\ trust.library = "own")
       /\ end = "client" => peerCert.names
  /\ verified = "OK" /\ tlsAt = "open" => OpenSSLIsPeerAuth

TlsTrue == KeptSecret /\ OkIsOk
=============================================================================
