----------------------------- MODULE HttpFetch -----------------------------
(***************************************************************************)
(* shim's two uses of HTTP in one boot: read_image fetches files of a      *)
(* network boot (httpboot_fetch_buffer), and the remote verifier posts an  *)
(* image's signature to a server on every network interface                *)
(* (osign_http_request, send_http_get_request, httpboot_fetch_buffer_uri). *)
(* Both run http_fetch of httpboot.c, one at a time, and share the global  *)
(* request method and body.                                                *)
(*                                                                         *)
(* The firmware completes a request or response token whenever it likes:   *)
(* its callback sets a flag in the stack frame of the function that polls. *)
(* (Some names begin with Fetch so that BootSourceProofs can extend this   *)
(* module and Fallback.)                                                   *)
(***************************************************************************)
EXTENDS Integers

CONSTANTS
    MaxNics,     \* interfaces with an HTTP service binding
    BindTries,   \* attempts to find a binding: 30
    DhcpTries,   \* attempts to get an address: 30
    RxSize,      \* size of rx_buffer: 9216
    MaxLength    \* bound: the largest Content-Length

ASSUME ConstantsAssumption ==
    /\ {MaxNics, BindTries, DhcpTries, RxSize} \subseteq Nat \ {0}
    /\ MaxLength \in Nat

VARIABLES
    at, job,       \* the next step, and "file" or "verify"
    method, body,  \* http_request_method; tx_body_json is not NULL
    count, nic,    \* the bindings found, and the one in use
    tries,         \* the retry counter of the loop it is in
    child, event,  \* the HTTP child handle and the token's event exist
    token, done, tokenStatus,  \* what the firmware works on, its answer
    code, length, got,         \* StatusCode, Content-Length, BodyLength
    buffer, buf_size, downloaded,
    status,        \* efi_status
    answered,      \* history: bindings whose server answered 200
    uninformed     \* history: bindings whose GetData succeeded without information

globals   == <<method, body>>
loop      == <<count, nic, tries>>
http      == <<child, event>>
answer    == <<done, tokenStatus, code, length, got>>
data      == <<buffer, buf_size, downloaded>>
asked     == <<answered, uninformed>>
fetchVars == <<at, job, globals, loop, http, token, answer, data, status, asked>>

Steps == {"idle", "bind", "nic", "dhcp", "setup", "request", "sent", "response",
          "first", "chunk", "more", "destroy", "fetched", "done", "hung"}

FetchTypeOK ==
    /\ at \in Steps /\ job \in {"file", "verify"}
    /\ method \in {"GET", "POST"} /\ body \in BOOLEAN
    /\ count \in 0 .. MaxNics /\ nic \in 0 .. count
    /\ tries \in 0 .. BindTries \cup 0 .. DhcpTries
    /\ child \in BOOLEAN /\ event \in BOOLEAN
    /\ token \in {"none", "request", "response"} /\ done \in BOOLEAN
    /\ tokenStatus \in {"ok", "error"} /\ code \in {"none", "200", "other"}
    /\ length \in 0 .. MaxLength /\ got \in 0 .. RxSize
    /\ buffer \in BOOLEAN /\ buf_size \in 0 .. MaxLength
    /\ downloaded \in 0 .. MaxLength
    /\ status \in {"ok", "error"}
    /\ answered \subseteq 1 .. MaxNics /\ uninformed \subseteq 0 .. MaxNics

FetchInit ==
    /\ at = "idle" /\ job = "file"
    /\ method = "GET" /\ body = FALSE
    /\ count = 0 /\ nic = 0 /\ tries = 0
    /\ child = FALSE /\ event = FALSE
    /\ token = "none" /\ done = FALSE /\ tokenStatus = "ok"
    /\ code = "none" /\ length = 0 /\ got = 0
    /\ buffer = FALSE /\ buf_size = 0 /\ downloaded = 0
    /\ status = "ok" /\ answered = {} /\ uninformed = {}

To(l) == at' = l /\ UNCHANGED status
Fail(l) == at' = l /\ status' = "error"

---------------------------------------------------------------------------
(* The callers                                                             *)

(* read_image on a device path with a URI.                                 *)
read_image ==
    /\ at = "idle"
    /\ job' = "file"
    /\ status' = "ok"
    /\ count' = 0 /\ nic' = 0 /\ tries' = 0 /\ answered' = {} /\ uninformed' = {}
    /\ at' = "setup"
    /\ UNCHANGED <<globals, http, token, answer, data>>

(* The body is built, or there is no memory for it; the method is POST     *)
(* from now on.                                                            *)
osign_http_request ==
    /\ at = "idle"
    /\ job' = "verify"
    /\ method' = "POST"
    /\ count' = 0 /\ nic' = 0 /\ tries' = 0 /\ answered' = {} /\ uninformed' = {}
    /\ \/ body' = TRUE /\ at' = "bind" /\ status' = "ok"
       \/ body' = FALSE /\ Fail("done")
    /\ UNCHANGED <<http, token, answer, data>>

(* The freshly loaded drivers get some time to bind.                       *)
LocateBindings ==
    /\ at = "bind"
    /\ \/ /\ tries < BindTries
          /\ count' \in 1 .. MaxNics /\ nic' = 1
          /\ To("nic")
          /\ UNCHANGED tries
       \/ /\ tries < BindTries
          /\ tries' = tries + 1
          /\ UNCHANGED <<at, status, count, nic>>
       \/ /\ tries = BindTries
          /\ Fail("done")
          /\ body' = FALSE
          /\ UNCHANGED loop
    /\ tries < BindTries => UNCHANGED body
    /\ UNCHANGED <<job, method, http, token, answer, data, asked>>

(* Mutant: an interface without an address is passed over.                 *)
ConfigureNicSkips ==
    /\ at = "nic"
    /\ tries' = 0
    /\ To("setup") \/ To("fetched") \/ Fail("fetched")
    /\ UNCHANGED <<job, globals, count, nic, http, token, answer, data, asked>>

Uninformed == uninformed' = uninformed \cup {nic} /\ UNCHANGED answered

(* The interface has an address, asks for one by DHCP, or is unusable.  A  *)
(* GetData that succeeds without information goes to break_loop with the   *)
(* status of that success: the loop passes the interface over.             *)
ConfigureNic ==
    /\ at = "nic"
    /\ tries' = 0
    /\ \/ (To("setup") \/ To("dhcp") \/ Fail("fetched")) /\ UNCHANGED asked
       \/ To("fetched") /\ Uninformed
    /\ UNCHANGED <<job, globals, count, nic, http, token, answer, data>>

(* Here such a success reads an address through NULL: the processor stops, *)
(* or what it finds counts as an address, which is then not ready, or not. *)
wait_until_get_iface_info ==
    /\ at = "dhcp"
    /\ \/ /\ tries < DhcpTries
          /\ tries' = tries + 1
          /\ \/ UNCHANGED <<at, status, asked>>
             \/ (To("setup") \/ Fail("fetched")) /\ UNCHANGED asked
             \/ To("hung") /\ Uninformed
       \/ tries = DhcpTries /\ Fail("fetched") /\ UNCHANGED <<tries, asked>>
    /\ UNCHANGED <<job, globals, count, nic, http, token, answer, data>>

---------------------------------------------------------------------------
(* http_fetch                                                              *)

(* Host name, interface and addresses, then the child, HandleProtocol and  *)
(* configure_http.                                                         *)
http_fetch ==
    /\ at = "setup"
    /\ code' = "none" /\ buffer' = FALSE /\ buf_size' = 0 /\ downloaded' = 0
    /\ \/ Fail("fetched") /\ UNCHANGED child
       \/ Fail("destroy") /\ child' = TRUE
       \/ To("request") /\ child' = TRUE
    /\ UNCHANGED <<job, globals, loop, event, token, done, tokenStatus, length,
                   got, asked>>

(* A POST without a body takes the length of a NULL string: the processor  *)
(* stops, or whatever is found at address 0 is sent.                       *)
send_http_request ==
    /\ at = "request"
    /\ \/ Fail("destroy") /\ UNCHANGED <<event, token, done>>
       \/ method = "POST" /\ ~body /\ To("hung") /\ UNCHANGED <<event, token, done>>
       \/ /\ event' = TRUE /\ token' = "request" /\ done' = FALSE
          /\ To("sent")
    /\ UNCHANGED <<job, globals, loop, child, tokenStatus, code, length, got, data, asked>>

(* Mutant: the polling gives up after a while.                             *)
RequestSentOrNot ==
    /\ at = "sent"
    /\ event' = FALSE
    /\ IF ~done \/ tokenStatus = "error" THEN Fail("destroy") ELSE To("response")
    /\ UNCHANGED <<job, globals, loop, child, token, answer, data, asked>>

(* The flag is set: Poll has run the callback.                             *)
RequestSent ==
    /\ at = "sent" /\ done
    /\ event' = FALSE
    /\ IF tokenStatus = "error" THEN Fail("destroy") ELSE To("response")
    /\ UNCHANGED <<job, globals, loop, child, token, answer, data, asked>>

receive_http_response ==
    /\ at = "response"
    /\ \/ Fail("destroy") /\ UNCHANGED <<event, token, done>>
       \/ /\ event' = TRUE /\ token' = "response" /\ done' = FALSE
          /\ To("first")
    /\ UNCHANGED <<job, globals, loop, child, tokenStatus, code, length, got, data, asked>>

(* The first response: status code, length and buffer.  Without a length   *)
(* or memory the error label is reached with the status of the successful  *)
(* Response call, so that the caller gets no buffer and no error.          *)
FirstResponse ==
    /\ at = "first" /\ done
    /\ answered' = IF tokenStatus = "ok" /\ code = "200" THEN answered \cup ({nic} \ {0})
                   ELSE answered
    /\ UNCHANGED uninformed
    /\ \/ /\ tokenStatus = "error" \/ code # "200"
          /\ Fail("destroy") /\ event' = FALSE
          /\ UNCHANGED data
       \/ /\ tokenStatus = "ok" /\ code = "200"
          /\ buf_size' = length
          /\ \/ /\ length # 0 /\ length < got
                /\ Fail("destroy") /\ event' = FALSE
                /\ UNCHANGED <<buffer, downloaded>>
             \/ /\ length = 0 \/ length >= got
                /\ To("destroy") /\ event' = FALSE
                /\ UNCHANGED <<buffer, downloaded>>
             \/ /\ length # 0 /\ length >= got
                /\ buffer' = TRUE /\ downloaded' = got
                /\ To("chunk")
                /\ UNCHANGED event
    /\ UNCHANGED <<job, globals, loop, child, token, answer>>

NextChunk ==
    /\ at = "chunk"
    /\ \/ /\ downloaded >= buf_size
          /\ To("destroy") /\ event' = FALSE
          /\ UNCHANGED <<token, done, buffer>>
       \/ /\ downloaded < buf_size
          /\ token' = "response" /\ done' = FALSE
          /\ To("more")
          /\ UNCHANGED <<event, buffer>>
       \/ /\ downloaded < buf_size
          /\ Fail("destroy") /\ event' = FALSE /\ buffer' = FALSE
          /\ UNCHANGED <<token, done>>
    /\ UNCHANGED <<job, globals, loop, child, tokenStatus, code, length, got,
                   buf_size, downloaded, asked>>

(* Mutant: a connection that ends early ends the download.                 *)
ChunkArrivedEarly ==
    /\ at = "more" /\ done
    /\ IF tokenStatus = "error" \/ got + downloaded > buf_size
       THEN To("destroy") /\ event' = FALSE /\ UNCHANGED <<buffer, downloaded>>
       ELSE To("chunk") /\ downloaded' = downloaded + got /\ UNCHANGED <<buffer, event>>
    /\ UNCHANGED <<job, globals, loop, child, token, answer, buf_size, asked>>

(* Mutant: a chunk that could not be received is asked for again.          *)
ChunkArrivedRetries ==
    /\ at = "more" /\ done
    /\ To("chunk")
    /\ downloaded' = IF tokenStatus = "error" \/ got + downloaded > buf_size
                     THEN downloaded ELSE downloaded + got
    /\ UNCHANGED <<job, globals, loop, http, token, answer, buffer, buf_size, asked>>

ChunkArrived ==
    /\ at = "more" /\ done
    /\ IF tokenStatus = "error" \/ got + downloaded > buf_size
       THEN /\ Fail("destroy") /\ event' = FALSE /\ buffer' = FALSE
            /\ UNCHANGED downloaded
       ELSE /\ To("chunk") /\ downloaded' = downloaded + got
            /\ UNCHANGED <<buffer, event>>
    /\ UNCHANGED <<job, globals, loop, child, token, answer, buf_size, asked>>

(* A child that cannot be destroyed turns success into an error.           *)
DestroyChild ==
    /\ at = "destroy"
    /\ child' = FALSE
    /\ To("fetched") \/ Fail("fetched")
    /\ UNCHANGED <<job, globals, loop, event, token, answer, data, asked>>

(* Mutant: an error does not end the loop over the interfaces.             *)
FetchReturnsGoesOn ==
    /\ at = "fetched"
    /\ buffer' = FALSE
    /\ IF job = "file" \/ nic = count
       THEN at' = "done" /\ body' = FALSE /\ UNCHANGED <<nic, status>>
       ELSE at' = "nic" /\ nic' = nic + 1 /\ status' = "ok" /\ UNCHANGED body
    /\ UNCHANGED <<job, method, count, tries, http, token, answer, buf_size, downloaded, asked>>

(* Mutant: the loop runs once more than there are interfaces.              *)
FetchReturnsOneMore ==
    /\ at = "fetched"
    /\ buffer' = FALSE
    /\ IF job = "file" \/ status = "error" \/ nic > count
       THEN To("done") /\ UNCHANGED nic
       ELSE To("nic") /\ nic' = nic + 1
    /\ UNCHANGED <<job, globals, count, tries, http, token, answer, buf_size, downloaded, asked>>

(* Back in read_image, or in the loop of send_http_get_request, which goes *)
(* on after a success and stops at the first error; osign_http_request     *)
(* then frees the body.                                                    *)
FetchReturns ==
    /\ at = "fetched"
    /\ \/ /\ job = "file"
          /\ To("done")
          /\ UNCHANGED <<nic, body, buffer>>
       \/ /\ job = "verify" /\ (status = "error" \/ nic = count)
          /\ To("done")
          /\ body' = FALSE /\ buffer' = FALSE
          /\ UNCHANGED nic
       \/ /\ job = "verify" /\ status = "ok" /\ nic < count
          /\ nic' = nic + 1
          /\ To("nic")
          /\ buffer' = FALSE
          /\ UNCHANGED body
    /\ UNCHANGED <<job, method, count, tries, http, token, answer, buf_size, downloaded, asked>>

(* The caller uses and frees the result, and goes on with the boot.        *)
Return ==
    /\ at = "done"
    /\ To("idle")
    /\ buffer' = FALSE
    /\ UNCHANGED <<job, globals, loop, http, token, answer, buf_size, downloaded, asked>>

---------------------------------------------------------------------------
(* The firmware (external): httpnotify runs when a token is completed.     *)

Complete(s) == token' = "none" /\ done' = TRUE /\ tokenStatus' = s

RequestCompletes ==
    /\ token = "request"
    /\ \E s \in {"ok", "error"} : Complete(s)
    /\ UNCHANGED <<at, job, globals, loop, http, code, length, got, data, status, asked>>

ResponseCompletes ==
    /\ token = "response" /\ code = "none"
    /\ \E s \in {"ok", "error"} : Complete(s)
    /\ code' \in {"200", "other"}
    /\ length' \in 0 .. MaxLength
    /\ got' \in 0 .. RxSize
    /\ UNCHANGED <<at, job, globals, loop, http, data, status, asked>>

ChunkCompletes(n) ==
    /\ token = "response" /\ code # "none"
    /\ \E s \in {"ok", "error"} : Complete(s)
    /\ got' = n
    /\ UNCHANGED <<at, job, globals, loop, http, code, length, data, status, asked>>

Firmware ==
    \/ RequestCompletes \/ ResponseCompletes
    \/ \E n \in 0 .. RxSize : ChunkCompletes(n)

Shim ==
    \/ LocateBindings \/ ConfigureNic \/ wait_until_get_iface_info
    \/ http_fetch \/ send_http_request \/ RequestSent \/ receive_http_response
    \/ FirstResponse \/ NextChunk \/ ChunkArrived \/ DestroyChild \/ FetchReturns

FetchNext ==
    \/ read_image \/ osign_http_request \/ Shim \/ Firmware \/ Return
    \/ at = "hung" /\ UNCHANGED fetchVars

FetchSpec == FetchInit /\ [][FetchNext]_fetchVars

(* shim polls, and the firmware completes every token, because shim leaves *)
(* the default time-out in force; and a connection that stays open does    *)
(* not deliver empty chunks for ever.                                      *)
Fairness ==
    /\ WF_fetchVars(Shim) /\ WF_fetchVars(Firmware)
    /\ SF_fetchVars(\E n \in 1 .. RxSize : ChunkCompletes(n))

FairSpec == FetchSpec /\ Fairness
---------------------------------------------------------------------------
(* Properties                                                              *)

(* The flag the callback sets and the buffers the firmware fills lie in    *)
(* the stack frame of send_http_request or receive_http_response: as long  *)
(* as a token is pending that function has not returned, its event is open *)
(* and the child exists, on every error path; afterwards nothing is left.  *)
TokenInFrame ==
    /\ token = "request" => at = "sent"
    /\ token = "response" => at \in {"first", "more"}
    /\ token # "none" => event
    /\ event => child /\ at \in {"sent", "first", "chunk", "more"}
    /\ at \in {"nic", "setup", "fetched", "done", "idle"} => ~child

(* A fetch that succeeds was answered with status 200, and a buffer it     *)
(* returns is full: a download that is cut short or too long, in whatever  *)
(* chunks it comes, is an error, and nothing is copied past the end.       *)
WholeFile ==
    /\ buffer => downloaded <= buf_size
    /\ at = "done" /\ job = "file" /\ status = "ok" =>
          code = "200" /\ (buffer => buf_size > 0 /\ downloaded = buf_size)

(* The remote verifier accepts an image only when there was an interface   *)
(* and the server answered 200 to this very request on every one of them,  *)
(* but for those whose GetData succeeded without any information: an error *)
(* on one of them is not hidden by the interfaces tried after it.          *)
VerifiedByAll ==
    at = "done" /\ job = "verify" /\ status = "ok" =>
        count > 0 /\ answered = (1 .. count) \ uninformed

(* A file is fetched by POST after a verification.                         *)
StaleMethod == job = "file" /\ method = "POST"

(* Every fetch ends, with a result or an error, although the polling loops *)
(* have no limit of their own: only the request method left behind by the  *)
(* verifier, or an interface whose DHCP succeeds without information, can  *)
(* stop it for good.                                                       *)
FetchEnds ==
    at \in {"bind", "setup"} /\ ~StaleMethod
        ~> at = "done" \/ (at = "hung" /\ nic \in uninformed)
=============================================================================
