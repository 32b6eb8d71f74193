---------------------------- MODULE NetworkUtils ----------------------------
(***************************************************************************)
(* is_same_hostname(rhs, size) and get_host_name(name, size) of            *)
(* src/core/utils/network_utils.cpp.  is_same_hostname reads the host's    *)
(* name into a zero-initialised char name[256] with get_host_name, returns *)
(* false on any error, compares strlen(name) with size, and only then      *)
(* compares the size bytes of name and rhs.                                *)
(*                                                                         *)
(* gethostname is the environment: it may fail for reasons of its own, and *)
(* it fails when the name and its NUL do not fit the buffer (glibc returns *)
(* ENAMETOOLONG, Winsock WSAEFAULT).  On _WIN32 get_host_name brackets it   *)
(* with WSAStartup, which may fail, and WSACleanup.  Both builds are        *)
(* checked.  The hostname may change between calls (an administrator).     *)
(* The buffer is scaled from 256 bytes to NAME_SIZE; bytes are small       *)
(* naturals with 0 the NUL.                                                *)
(***************************************************************************)
EXTENDS Naturals, Integers, Sequences, FiniteSetsExt

CONSTANTS
  Chars,      \* non-NUL bytes a hostname or an argument may hold
  NAME_SIZE,  \* sizeof name, scaled down
  HostNames,  \* names the host may have (some too long for the buffer)
  Args        \* the byte strings a caller may pass as rhs

ASSUME NAME_SIZE \in Nat \ {0} /\ 0 \notin Chars

Builds == {"posix", "win32"}

VARIABLES
  build,     \* which branch of #ifdef _WIN32 the library was built with
  hostname,  \* the host's name now
  call,      \* the last call: rhs, size, and the hostname when it ran
  err,       \* what get_host_name returned in the last call
  ret        \* what is_same_hostname returned

vars == <<build, hostname, call, err, ret>>

NoCall == [rhs |-> <<>>, size |-> 0, host |-> <<>>]

TypeOK ==
  /\ build \in Builds /\ hostname \in HostNames
  /\ call \in [rhs : Args, size : Nat, host : HostNames \cup {<<>>}]
  /\ err \in Int /\ ret \in BOOLEAN

Init ==
  /\ build \in Builds /\ hostname \in HostNames
  /\ call = NoCall /\ err = 0 /\ ret = FALSE

(* char name[256] = {}                                                     *)
EmptyName == [i \in 0 .. NAME_SIZE - 1 |-> 0]

(* gethostname(name, size) on success: the name and its NUL; it fails      *)
(* when they do not fit.                                                   *)
Fits(h) == Len(h) < NAME_SIZE
Written(h) == [i \in 0 .. NAME_SIZE - 1 |-> IF i < Len(h) THEN h[i + 1] ELSE 0]

(* get_host_name(name, size): [err, name].  hostOk is whether gethostname  *)
(* is spared the failures of its own; startupOk whether WSAStartup works.  *)
(* An error is a non-zero int: -1, or what WSAGetLastError returns.        *)
get_host_name(startupOk, hostOk) ==
  LET ok == hostOk /\ Fits(hostname) IN
  IF build = "win32" /\ ~startupOk THEN [err |-> -1, name |-> EmptyName]
  ELSE IF ok THEN [err |-> 0, name |-> Written(hostname)]
  ELSE [err |-> IF build = "win32" THEN 10014 ELSE -1, name |-> EmptyName]

(* std::strlen: the index of the first NUL.                                 *)
strlen(buf) == Min({i \in DOMAIN buf : buf[i] = 0})

(* std::equal(name, name + size, rhs).                                     *)
equal(buf, size, rhs) == \A i \in 0 .. size - 1 : buf[i] = rhs[i + 1]

(* Mutant of is_same_hostname: the length check is left out, so only the  *)
(* first size bytes of name are compared.                                  *)
SameNoLength(res, rhs, size) == res.err = 0 /\ equal(res.name, size, rhs)

(* The answer is_same_hostname gives for get_host_name's result res.       *)
Same(res, rhs, size) ==
  /\ res.err = 0
  /\ strlen(res.name) = size
  /\ equal(res.name, size, rhs)

(* is_same_hostname(rhs, size): the whole call, with the environment's     *)
(* choices as inputs.  size is at most the length of rhs (a string_ref).   *)
is_same_hostname(rhs, size, startupOk, hostOk) ==
  LET res == get_host_name(startupOk, hostOk) IN
  /\ call' = [rhs |-> rhs, size |-> size, host |-> hostname]
  /\ err' = res.err
  /\ ret' = Same(res, rhs, size)
  /\ UNCHANGED <<build, hostname>>

(* The host is renamed.                                                    *)
SetHostname(h) ==
  /\ h # hostname /\ hostname' = h
  /\ UNCHANGED <<build, call, err, ret>>

Next ==
  \/ \E rhs \in Args, startupOk, hostOk \in BOOLEAN :
       \E size \in 0 .. Len(rhs) : is_same_hostname(rhs, size, startupOk, hostOk)
  \/ \E h \in HostNames : SetHostname(h)

Spec == Init /\ [][Next]_vars

-----------------------------------------------------------------------------
(* The name the caller asked about: the first size bytes of rhs.           *)
Asked == SubSeq(call.rhs, 1, call.size)

(* is_same_hostname answers true exactly when the size bytes of rhs are   *)
(* the host's name at the time of the call, unless get_host_name failed,   *)
(* when it answers false: never true for a prefix, an extension or another *)
(* name, and never false for the name itself when the call succeeded.     *)
SameHostnameCorrect ==
  call # NoCall =>
    /\ err # 0 => ~ret
    /\ err = 0 => (ret <=> Asked = call.host)

=============================================================================
