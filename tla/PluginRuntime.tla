--------------------------- MODULE PluginRuntime ---------------------------
(***************************************************************************)
(* A plugin instance as its host drives it: the WASM exports               *)
(* (wasm_exports.go), the dispatcher behind them (dispatch.go) and the     *)
(* host calls a plugin's own code makes while an export runs               *)
(* (wasm_backends.go, custom_host_call.go).  One instance is single        *)
(* threaded; the host re-enters it only through paca_malloc, to place a    *)
(* host call's result.  What makes it hard is that request payloads,       *)
(* host-call results and abandoned allocations share one buffer, and every *)
(* host call that copied its result out releases all of it.                *)
(***************************************************************************)
EXTENDS HostArena

CONSTANTS
  Registrable,   \* the <<export, name>> handlers a plugin's Init may register
  MaxResult,     \* maxResultBytes
  MaxReply,      \* bound: the largest reply a handler builds
  MaxInits       \* bound: Init calls counted before the count saturates

ResultExports == {"HandleRequest", "EvaluateCondition", "RunAction"}
HandlerExports == ResultExports \cup {"HandleEvent"}
Exports == HandlerExports \cup {"Init", "Shutdown", "none"}

ASSUME RegistrableAssumption == Registrable \subseteq HandlerExports \X Names
ASSUME MaxResultAssumption == MaxResult \in Nat \ {0}
ASSUME MaxReplyAssumption == MaxReply \in Nat \ {0}
ASSUME MaxInitsAssumption == MaxInits \in Nat \ {0}

VARIABLES
  globalDispatcher,  \* "nil" until main calls Run, then "set"
  initted,           \* dispatcher.initted
  ctx,               \* handlers registered on dispatcher.ctx
  pc,                \* where the export in progress is
  fn,                \* the export in progress
  topic, payload,    \* the slices it holds: which handler, which bytes
  held,              \* a host-call result the plugin's code still holds
  reply,             \* the unpacked result: its kind and its size
  resultBuf,         \* the last result handed to the host
  \* history, for the properties only:
  sent,              \* what the host sent with the export in progress
  delivered,         \* what the host delivered as the held result
  registered,        \* handlers registered since Init was last called
  inits,             \* calls of Plugin.Init
  debt,              \* bytes allocated that no export will reclaim
  promised           \* the result the host must read from resultBuf

dispatcherVars == <<globalDispatcher, initted, ctx, registered, inits>>
callVars == <<fn, topic, payload, sent>>
heldVars == <<held, delivered>>
resultVars == <<reply, resultBuf, promised>>
vars == <<arenaVars, dispatcherVars, pc, callVars, heldVars, resultVars, debt>>

PC == {"idle", "entry", "init", "initializing", "lookup", "handler",
       "shutdown", "pack"}
(* The control points at which the plugin author's code runs.              *)
PluginCode == {"initializing", "handler", "shutdown"}
Kinds == {"none", "bad payload", "init failed", "no handler", "handled", "too large"}

NoReply == [kind |-> "none", size |-> 0]
NothingSent == [topic |-> "nothing", payload |-> "nothing"]

Init ==
  /\ ArenaInit
  /\ globalDispatcher = "nil" /\ initted = FALSE /\ ctx = {}
  /\ pc = "idle" /\ fn = "none" /\ topic = Nil /\ payload = Nil /\ sent = NothingSent
  /\ held = Nil /\ delivered = "nothing"
  /\ reply = NoReply /\ resultBuf = Nil /\ promised = NoReply
  /\ registered = {} /\ inits = 0 /\ debt = 0

(* An export returns: its locals are gone.                                 *)
Return ==
  /\ pc' = "idle" /\ fn' = "none"
  /\ topic' = Nil /\ payload' = Nil /\ sent' = NothingSent

----------------------------------------------------------------------------
(* main: Run(p)                                                            *)
Run ==
  /\ pc = "idle" /\ globalDispatcher = "nil"
  /\ globalDispatcher' = "set"
  /\ UNCHANGED <<arenaVars, initted, ctx, registered, inits, pc, callVars,
                 heldVars, resultVars, debt>>

(* paca_malloc outside any call: an allocation the host then abandons, as  *)
(* when the second block of an event does not fit.                         *)
malloc(size, c) ==
  /\ pc = "idle"
  /\ HostWrites(size, c)
  /\ debt' = debt + size
  /\ UNCHANGED <<dispatcherVars, pc, callVars, heldVars, resultVars>>

ResetAllocator ==
  /\ pc = "idle"
  /\ mallocOffset' = wasmResetAllocator
  /\ debt' = 0
  /\ UNCHANGED <<mallocBuffer, dispatcherVars, pc, callVars, heldVars, resultVars>>

(* Entry of an export that takes a payload and packs a result.  Before Run *)
(* it returns at once and leaves the payload in the buffer.                *)
CallResultExport(e, size, c) ==
  LET bytes == wasmSlice(MallocAt(mallocOffset, size), size)
  IN  /\ pc = "idle"
      /\ IF c = "nothing" THEN size = 0 /\ UNCHANGED arenaVars
                          ELSE HostWrites(size, c)
      /\ IF globalDispatcher = "nil"
           THEN debt' = debt + size /\ Return
           ELSE /\ pc' = "entry" /\ fn' = e
                /\ sent' = [topic |-> c, payload |-> c]
                /\ topic' = bytes /\ payload' = bytes
                /\ UNCHANGED debt
      /\ UNCHANGED <<dispatcherVars, heldVars, resultVars>>

(* Mutation: HandleEvent hands the aliasing slices on.                     *)
EventAliased(b) == b

(* The copy HandleEvent makes of its topic and payload before dispatching. *)
EventBytes(b) == Copied(mallocBuffer, b)

(* HandleEvent: the host has placed topic t, then payload c, in two        *)
(* blocks.  Nothing reclaims them when the export returns.                 *)
CallHandleEvent(tsize, t, size, c) ==
  LET tptr == MallocAt(mallocOffset, tsize)
      off  == OffsetAfter(mallocOffset, tsize)
      ptr  == MallocAt(off, size)
      buf  == Written(mallocBuffer, tptr, tsize, t)
  IN  /\ pc = "idle"
      /\ tptr # 0
      /\ IF c = "nothing" THEN size = 0 ELSE ptr # 0
      /\ mallocOffset' = OffsetAfter(off, size)
      /\ mallocBuffer' = IF ptr = 0 THEN buf ELSE Written(buf, ptr, size, c)
      /\ debt' = debt + tsize + size
      /\ IF globalDispatcher = "nil"
           THEN Return
           ELSE /\ pc' = "entry" /\ fn' = "HandleEvent"
                /\ sent' = [topic |-> t, payload |-> c]
                /\ topic' = wasmSlice(tptr, tsize) /\ payload' = wasmSlice(ptr, size)
      /\ UNCHANGED <<dispatcherVars, heldVars, resultVars>>

(* The Init and Shutdown exports take no payload.                          *)
CallInit ==
  /\ pc = "idle" /\ globalDispatcher = "set"
  /\ pc' = "init" /\ fn' = "Init"
  /\ UNCHANGED <<arenaVars, dispatcherVars, topic, payload, sent, heldVars,
                 resultVars, debt>>

CallShutdown ==
  /\ pc = "idle" /\ globalDispatcher = "set"
  /\ pc' = "shutdown" /\ fn' = "Shutdown"
  /\ UNCHANGED <<arenaVars, dispatcherVars, topic, payload, sent, heldVars,
                 resultVars, debt>>

----------------------------------------------------------------------------
(* The dispatcher.  A result export first decodes its payload, then        *)
(* initialises the plugin; a malformed payload is answered before Init.    *)

(* unmarshalJSON keeps copies of what it decodes.                          *)
Decoded(b) == Copied(mallocBuffer, b)

(* The dispatcher is done with the call: a result export goes on to pack   *)
(* what it answered, the others just return.                               *)
Answer(kind) ==
  IF fn \in ResultExports
    THEN /\ pc' = "pack"
         /\ \E size \in 1..MaxReply : reply' = [kind |-> kind, size |-> size]
         /\ UNCHANGED callVars
    ELSE Return /\ UNCHANGED reply

DecodePayload ==
  /\ pc = "entry" /\ fn \in ResultExports
  /\ \/ /\ Bytes(mallocBuffer, payload) \in Names
        /\ pc' = "init"
        /\ topic' = Decoded(topic) /\ payload' = Decoded(payload)
        /\ UNCHANGED <<fn, sent, reply>>
     \/ /\ Bytes(mallocBuffer, payload) \notin Names
        /\ Answer("bad payload")
  /\ UNCHANGED <<arenaVars, dispatcherVars, heldVars, resultBuf, promised, debt>>

CopyEvent ==
  /\ pc = "entry" /\ fn = "HandleEvent"
  /\ topic' = EventBytes(topic) /\ payload' = EventBytes(payload)
  /\ pc' = "init"
  /\ UNCHANGED <<arenaVars, dispatcherVars, fn, sent, heldVars, resultVars, debt>>

(* Where a call goes once the plugin is initialised.                       *)
Initialised ==
  IF fn = "Init" THEN Return ELSE pc' = "lookup" /\ UNCHANGED callVars

InitDone ==
  /\ pc = "init" /\ initted
  /\ Initialised
  /\ UNCHANGED <<arenaVars, dispatcherVars, heldVars, resultVars, debt>>

(* Mutation: a retried Init reuses the Context of the failed attempt.      *)
SameContext == ctx

(* The Context a call of Plugin.Init starts from.                          *)
newContext == {}

(* Mutation: initted is not consulted.                                     *)
InitAgain ==
  /\ pc = "init"
  /\ ctx' = newContext
  /\ registered' = {}
  /\ inits' = IF inits < MaxInits THEN inits + 1 ELSE inits
  /\ pc' = "initializing"
  /\ UNCHANGED <<arenaVars, globalDispatcher, initted, callVars, heldVars,
                 resultVars, debt>>

InitBegin ==
  /\ pc = "init" /\ ~initted
  /\ ctx' = newContext
  /\ registered' = {}
  /\ inits' = IF inits < MaxInits THEN inits + 1 ELSE inits
  /\ pc' = "initializing"
  /\ UNCHANGED <<arenaVars, globalDispatcher, initted, callVars, heldVars,
                 resultVars, debt>>

(* Context.Route, On, Condition and Action; a repeat replaces.             *)
Register(e, n) ==
  /\ pc = "initializing"
  /\ ctx' = ctx \cup {<<e, n>>}
  /\ registered' = registered \cup {<<e, n>>}
  /\ UNCHANGED <<arenaVars, globalDispatcher, initted, inits, pc, callVars,
                 heldVars, resultVars, debt>>

InitSucceeds ==
  /\ pc = "initializing"
  /\ initted' = TRUE
  /\ Initialised
  /\ UNCHANGED <<arenaVars, globalDispatcher, ctx, registered, inits, heldVars,
                 resultVars, debt>>

InitFails ==
  /\ pc = "initializing"
  /\ Answer("init failed")
  /\ UNCHANGED <<arenaVars, dispatcherVars, heldVars, resultBuf, promised, debt>>

Lookup ==
  /\ pc = "lookup"
  /\ \/ /\ <<fn, Bytes(mallocBuffer, topic)>> \in ctx
        /\ pc' = "handler"
        /\ UNCHANGED <<callVars, reply>>
     \/ /\ <<fn, Bytes(mallocBuffer, topic)>> \notin ctx
        /\ Answer("no handler")
  /\ UNCHANGED <<arenaVars, dispatcherVars, heldVars, resultBuf, promised, debt>>

HandlerReturns ==
  /\ pc = "handler"
  /\ Answer("handled")
  /\ UNCHANGED <<arenaVars, dispatcherVars, heldVars, resultBuf, promised, debt>>

ShutdownReturns ==
  /\ pc = "shutdown"
  /\ Return
  /\ UNCHANGED <<arenaVars, dispatcherVars, heldVars, resultVars, debt>>

(* boundResult: a result over the limit is replaced by a short explanation. *)
boundResult(r) ==
  IF r.size <= MaxResult THEN r ELSE [kind |-> "too large", size |-> 1]

(* Mutation: the result is placed in the released buffer.                  *)
PackInArena ==
  LET r == boundResult(reply)
  IN  /\ pc = "pack"
      /\ mallocOffset' = wasmResetAllocator
      /\ mallocBuffer' = Written(mallocBuffer, mallocBase, 1, r.kind)
      /\ resultBuf' = [heap |-> FALSE, ptr |-> mallocBase, len |-> r.size, val |-> "nothing"]
      /\ promised' = IF reply.size > MaxResult
                       THEN [kind |-> "too large", size |-> 1] ELSE reply
      /\ debt' = 0
      /\ Return
      /\ reply' = NoReply
      /\ UNCHANGED <<dispatcherVars, heldVars>>

(* The tail of a result export: wasmResetAllocator, then packWASMResult,   *)
(* which keeps the result on the Go heap.                                  *)
PackResult ==
  LET r == boundResult(reply)
  IN  /\ pc = "pack"
      /\ mallocOffset' = wasmResetAllocator
      /\ resultBuf' = [heap |-> TRUE, ptr |-> 0, len |-> r.size, val |-> r.kind]
      /\ promised' = IF reply.size > MaxResult
                       THEN [kind |-> "too large", size |-> 1] ELSE reply
      /\ debt' = 0
      /\ Return
      /\ reply' = NoReply
      /\ UNCHANGED <<mallocBuffer, dispatcherVars, heldVars>>

----------------------------------------------------------------------------
(* Host calls made by the plugin's code.                                   *)

(* Mutation: the backend returns a slice of the released buffer.           *)
ResultAliased(buffer, b) == b

(* The copy a backend makes of a host result before it releases the buffer. *)
ResultBytes(buffer, b) == Copied(buffer, b)

(* Query, Exec, KV/Cache/Config Get, Fetch, GetBranding, CallHostFunction: *)
(* the host delivers size bytes saying c (rows, a value, an envelope or an *)
(* error message), the backend copies them out and releases the buffer.    *)
(* The plugin keeps the new result or whatever it already held.            *)
HostDelivers(size, c) ==
  LET ptr == MallocAt(mallocOffset, size)
      buf == Written(mallocBuffer, ptr, size, c)
  IN  /\ pc \in PluginCode
      /\ ptr # 0
      /\ mallocBuffer' = buf
      /\ mallocOffset' = wasmResetAllocator
      /\ \/ held' = ResultBytes(buf, wasmSlice(ptr, size)) /\ delivered' = c
         \/ UNCHANGED heldVars
      /\ debt' = 0
      /\ UNCHANGED <<dispatcherVars, pc, callVars, resultVars>>

(* The same calls when the host has nothing to deliver or its allocation   *)
(* was refused: the backend returns "no value", an empty result or an      *)
(* error and does not release the buffer.                                  *)
HostDeliversNothing ==
  /\ pc \in PluginCode
  /\ held' = Nil /\ delivered' = "nothing"
  /\ UNCHANGED <<arenaVars, dispatcherVars, pc, callVars, resultVars, debt>>

(* A handler stores the payload it was given, to use it after returning.   *)
KeepPayload ==
  /\ pc = "handler"
  /\ held' = payload /\ delivered' = sent.payload
  /\ UNCHANGED <<arenaVars, dispatcherVars, pc, callVars, resultVars, debt>>

Next ==
  \/ Run
  \/ \E size \in 1..MaxSize, c \in Names : malloc(size, c)
  \/ ResetAllocator
  \/ \E e \in ResultExports, size \in 0..MaxSize, c \in Sendable : CallResultExport(e, size, c)
  \/ \E tsize \in 1..MaxSize, t \in Names, size \in 0..MaxSize, c \in Sendable :
       CallHandleEvent(tsize, t, size, c)
  \/ CallInit
  \/ CallShutdown
  \/ DecodePayload
  \/ CopyEvent
  \/ InitDone
  \/ InitBegin
  \/ \E r \in Registrable : Register(r[1], r[2])
  \/ InitSucceeds
  \/ InitFails
  \/ Lookup
  \/ HandlerReturns
  \/ ShutdownReturns
  \/ PackResult
  \/ \E size \in 1..MaxSize, c \in Names : HostDelivers(size, c)
  \/ HostDeliversNothing
  \/ KeepPayload

Spec == Init /\ [][Next]_vars

----------------------------------------------------------------------------
GoSlices ==
  [heap : BOOLEAN, ptr : 0..ArenaCap, len : Nat, val : Contents \cup Kinds]

Replies == [kind : Kinds, size : Nat]

(* Every variable stays in its type; in particular the allocator never     *)
(* moves past the end of mallocBuffer (wasmMalloc).                        *)
TypeOK ==
  /\ mallocOffset \in 0..ArenaCap
  /\ mallocBuffer \in [Cells -> Contents \cup Kinds]
  /\ globalDispatcher \in {"nil", "set"}
  /\ initted \in BOOLEAN
  /\ ctx \subseteq Registrable
  /\ registered \subseteq Registrable
  /\ inits \in 0..MaxInits
  /\ pc \in PC
  /\ fn \in Exports
  /\ topic \in GoSlices /\ payload \in GoSlices /\ held \in GoSlices
  /\ sent \in [topic : Sendable, payload : Sendable]
  /\ delivered \in Sendable
  /\ reply \in Replies /\ promised \in Replies
  /\ resultBuf \in GoSlices
  /\ debt \in Nat

(* A handler is looked up by, and reads, exactly what the host sent with   *)
(* this call, however many host calls Plugin.Init and the handler itself   *)
(* made in between: each of them overwrites the buffer the payload arrived *)
(* in (dispatch.go's decode-before-init, HandleEvent's copies).            *)
HandlerSeesItsCall ==
  pc \in {"lookup", "handler"} =>
    /\ Bytes(mallocBuffer, topic) = sent.topic
    /\ Bytes(mallocBuffer, payload) = sent.payload

(* A host-call result or an event payload that plugin code kept stays what *)
(* the host delivered, through later host calls and later exports (the     *)
(* copies the backends make before wasmResetAllocator).                    *)
HeldResultIntact == Bytes(mallocBuffer, held) = delivered

(* The result handed to the host stays readable and unchanged, whatever is *)
(* allocated, reset or handled before the next result replaces it, and it  *)
(* is the call's own reply or the too-large answer that stands in for it   *)
(* (packWASMResult, boundResult, resultBuf).                               *)
HostReadsTheReply ==
  /\ Bytes(mallocBuffer, resultBuf) =
       (IF promised.kind = "none" THEN "nothing" ELSE promised.kind)
  /\ resultBuf.len = promised.size
  /\ resultBuf.len <= MaxResult

(* Handlers are looked up only on the Context of an Init that succeeded,   *)
(* and it carries that Init's registrations and none left over from an     *)
(* attempt that failed half-way (dispatcher.init).                         *)
ContextOfOneInit ==
  pc \in {"lookup", "handler"} => initted /\ ctx = registered

(* Between calls the buffer holds only what events, calls before Run and   *)
(* abandoned allocations left since it was last released: every path of    *)
(* the result exports, failures included, gives the request's bytes back,  *)
(* so a host that sends only requests can always send a full-size one.     *)
OnlyDebtRemains == pc = "idle" => mallocOffset = debt

(* Once Plugin.Init has succeeded it is not called again and the handlers  *)
(* it registered stay registered (dispatcher.init's initted).              *)
InitIsFinal == [][initted => initted' /\ ctx' = ctx /\ inits' = inits]_vars
============================================================================
