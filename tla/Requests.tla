------------------------------ MODULE Requests ------------------------------
(***************************************************************************)
(* The requests and answers of the three services, byte by byte, over one  *)
(* connection: a client of the agent and the agent, the agent and the DNS  *)
(* service, or the agent and the reporter.  Requests are built, packed     *)
(* behind a head, sent in chunks that end anywhere, taken out of the input *)
(* buffer by onMessage, passed on by the router, read and answered.  What  *)
(* the tables of the services say is left open; Manage, DnsRoute,          *)
(* DnsSubscribe and Reporter have it.                                      *)
(***************************************************************************)
EXTENDS Messages, FiniteSets

CONSTANTS
    MaxLen,         \* the longest message that is handled: 65536
    Workers,        \* threads in the pool of the DNS service
    Modules,        \* <<modid, cmdid>>
    Hosts,          \* <<ip, port>> a balancer may choose and a client report on
    HostLists,      \* what a table may list: sequences of <<ip, port>>
    LocalIp,        \* 127.0.0.1
    Retcodes,       \* of the calls that clients report
    Reports,        \* the lists that are reported: <<idle, overload>>,
                    \* sequences of <<ip, port, succ, err>>
    Strays,         \* ids that no router knows
    Chunks,         \* how many bytes may arrive at once
    MaxAsked,       \* bound: requests of the client
    MaxPushes       \* bound: changes the DNS service pushes

Calls == Words \X Words \X Words \X Words

ASSUME RequestsAssumption ==
    /\ MaxLen \in Nat /\ MaxAsked \in Nat /\ MaxPushes \in Nat
    /\ Workers \in Nat \ {0}
    /\ MaxAsked < WordRange
    /\ LocalIp \in Words /\ Retcodes \subseteq Ints
    /\ Modules \subseteq Words \X Words /\ Hosts \subseteq Words \X Words
    /\ HostLists \subseteq Seq(Words \X Words)
    /\ Reports \subseteq Seq(Calls) \X Seq(Calls)
    /\ Chunks \subseteq Nat \ {0}
    /\ Strays \subseteq 0 .. WordRange \div 2 - 1 /\ Strays \cap 0 .. 8 = {}

VARIABLES
    server,     \* "agent", "dns" or "reporter"
    asked,      \* what the client sent: [id, msg]
    answered,   \* what the server sent
    up, down,   \* bytes to the server and to the client: [wire, buf]
    heard,      \* what the handlers of the server were given
    told,       \* what the handlers of the client were given
    keys,       \* modules of the client in _requesModLog and _subcribeMap
    tasks,      \* requests in the pool of the DNS service
    pushes      \* changes pushed so far

vars == <<server, asked, answered, up, down, heard, told, keys, tasks, pushes>>

ID == [GetRouteRequest |-> 1, GetRouteResponse |-> 2, GetHostRequest |-> 3,
       GetHostResponse |-> 4, API_GetRouteRequest |-> 5,
       API_GetRouteResponse |-> 6, ReportStatusRequest |-> 7, ReportRequest |-> 8]

RET == [SUCC |-> 0, OVERLOAD |-> 1, NOEXIST |-> 3]

----------------------------------------------------------------------------
(* A message under its id, and its bytes.                                  *)

Serialize(msg) ==
    CASE DOMAIN msg = DOMAIN ClearGetRouteRequest -> SerializeGetRouteRequest(msg)
      [] DOMAIN msg = DOMAIN ClearGetRouteResponse -> SerializeGetRouteResponse(msg)
      [] DOMAIN msg = DOMAIN ClearGetHostRequest -> SerializeGetHostRequest(msg)
      [] DOMAIN msg = DOMAIN ClearGetHostResponse -> SerializeGetHostResponse(msg)
      [] DOMAIN msg = DOMAIN ClearReportRequest -> SerializeReportRequest(msg)
      [] DOMAIN msg = DOMAIN ClearReportStatusRequest -> SerializeReportStatusRequest(msg)

ByteSize(msg) ==
    CASE DOMAIN msg = DOMAIN ClearGetRouteRequest -> ByteSizeGetRouteRequest(msg)
      [] DOMAIN msg = DOMAIN ClearGetRouteResponse -> ByteSizeGetRouteResponse(msg)
      [] DOMAIN msg = DOMAIN ClearGetHostRequest -> ByteSizeGetHostRequest(msg)
      [] DOMAIN msg = DOMAIN ClearGetHostResponse -> ByteSizeGetHostResponse(msg)
      [] DOMAIN msg = DOMAIN ClearReportRequest -> ByteSizeReportRequest(msg)
      [] DOMAIN msg = DOMAIN ClearReportStatusRequest -> ByteSizeReportStatusRequest(msg)

(* Heads travel in network order: id and length, high byte first.          *)
HeadBytes == (Word + 7) \div 8
HeadLen == 2 * HeadBytes

HostToNetwork(n) == [i \in 1 .. HeadBytes |-> (n \div Power2[8 * (HeadBytes - i)]) % 256]

NetworkToHost(bytes) ==
    Signed(FoldLeft(LAMBDA n, byte : 256 * n + byte, 0, bytes), WordRange)

Pack(m) ==
    LET data == Serialize(m.msg)
    IN  HostToNetwork(m.id) \o HostToNetwork(Len(data)) \o data

FrontId(buf) == NetworkToHost(SubSeq(buf, 1, HeadBytes))
FrontLen(buf) == NetworkToHost(SubSeq(buf, HeadBytes + 1, HeadLen))
FrontData(buf) == SubSeq(buf, HeadLen + 1, HeadLen + FrontLen(buf))

(* Mistakes the checked properties must notice: a variant X_mistake stands *)
(* in for X in a mutation run, and nothing else uses it.                   *)
BehindFront_keepsHead(buf) == SubSeq(buf, FrontLen(buf) + 1, Len(buf))

BehindFront(buf) == SubSeq(buf, HeadLen + FrontLen(buf) + 1, Len(buf))

FrontIsWhole_strictly(buf) ==
    /\ Len(buf) >= HeadLen
    /\ FrontLen(buf) \in 0 .. MaxLen
    /\ Len(buf) > FrontLen(buf) + HeadLen

(* onMessage handles messages as long as this is so.  An invalid length is *)
(* not taken out.                                                          *)
FrontIsWhole(buf) ==
    /\ Len(buf) >= HeadLen
    /\ FrontLen(buf) \in 0 .. MaxLen
    /\ Len(buf) >= FrontLen(buf) + HeadLen

----------------------------------------------------------------------------
(* Routers: ids to callbacks.  An id that is registered stays with its     *)
(* first callback.                                                         *)

registerMsgRouter(router, id, callback) ==
    IF id \in DOMAIN router THEN router
    ELSE [i \in DOMAIN router \cup {id} |-> IF i = id THEN callback ELSE router[i]]

AgentRouter ==
    registerMsgRouter(
        registerMsgRouter(
            registerMsgRouter(<<>>, ID.GetHostRequest, "msgGetTheBestHostInfoCB"),
            ID.ReportRequest, "msgReportStatusCB"),
        ID.API_GetRouteRequest, "msgGetAllHostsCB")

DnsRouter == registerMsgRouter(<<>>, ID.GetRouteRequest, "msgGetRouteCB")

ReporterRouter == registerMsgRouter(<<>>, ID.ReportStatusRequest, "msgGetReportStatusCB")

AgentClientRouter ==
    registerMsgRouter(
        registerMsgRouter(<<>>, ID.GetHostResponse, "msgRecvTheBestHostInfoCB"),
        ID.API_GetRouteResponse, "msgRecvAllHostsCB")

Router(service) ==
    CASE service = "agent" -> AgentRouter
      [] service = "dns" -> DnsRouter
      [] service = "reporter" -> ReporterRouter

----------------------------------------------------------------------------
Init ==
    /\ server \in {"agent", "dns", "reporter"}
    /\ asked = <<>> /\ answered = <<>>
    /\ up = [wire |-> <<>>, buf |-> <<>>] /\ down = [wire |-> <<>>, buf |-> <<>>]
    /\ heard = <<>> /\ told = <<>>
    /\ keys = {} /\ tasks = <<>> /\ pushes = 0

(* Bound: protobuf writes no message that is longer than an int can say.   *)
Writable(msg) == ByteSize(msg) < WordRange \div 2

Ask(id, msg) ==
    LET m == [id |-> id, msg |-> msg]
    IN  /\ Len(asked) < MaxAsked /\ Writable(msg)
        /\ asked' = Append(asked, m)
        /\ up' = [up EXCEPT !.wire = @ \o Pack(m)]
        /\ UNCHANGED <<server, answered, down, heard, told, keys, tasks, pushes>>

Answer(id, msg) ==
    LET m == [id |-> id, msg |-> msg]
    IN  /\ Writable(msg)
        /\ answered' = Append(answered, m)
        /\ down' = [down EXCEPT !.wire = @ \o Pack(m)]

(* The requests of AgentClientTest; the id is an argument of each.         *)
sendGetBestHostRequestMsg(id, mod, seq) ==
    /\ server = "agent"
    /\ Ask(id, [ClearGetHostRequest EXCEPT !.seq = seq, !.modid = mod[1], !.cmdid = mod[2]])

sendGetAllHostsRequestMsg(id, mod) ==
    /\ server = "agent"
    /\ Ask(id, [ClearGetRouteRequest EXCEPT !.modid = mod[1], !.cmdid = mod[2]])

sendReportRequestMsg(id, mod, host, retcode) ==
    LET req == [ClearReportRequest EXCEPT !.modid = mod[1], !.cmdid = mod[2],
                                          !.retcode = retcode]
    IN  /\ server = "agent"
        /\ Ask(id, SetHost(req, host[1], host[2]))

(* The requests of the agent.                                              *)
pullHostFromDns(mod) ==
    /\ server = "dns"
    /\ Ask(ID.GetRouteRequest,
           [ClearGetRouteRequest EXCEPT !.modid = mod[1], !.cmdid = mod[2]])

CallResult(call, overload) ==
    [ClearHostCallResult EXCEPT !.ip = call[1], !.port = call[2], !.succ = call[3],
                                !.err = call[4], !.overload = overload]

(* One add_results() for every call of a list.                             *)
WithResults(req, calls, overload) ==
    FoldLeft(LAMBDA r, call : AddResult(r, CallResult(call, overload)), req, calls)

pushCallResultToReport(mod, report, ts) ==
    LET req == [ClearReportStatusRequest EXCEPT !.modid = mod[1], !.cmdid = mod[2],
                                                !.ts = ts, !.caller = LocalIp]
    IN  /\ server = "reporter"
        /\ Ask(ID.ReportStatusRequest,
               WithResults(WithResults(req, report[1], FALSE), report[2], TRUE))

(* The requests of DnsClientTest and RepoterClientTest.                    *)
sendRouteRequestMsg(id) ==
    /\ server = "dns"
    /\ Ask(id, [ClearGetRouteRequest EXCEPT !.modid = 1, !.cmdid = 2])

sendReportStatusRequestMsg(id, modid, ts) ==
    LET req == [ClearReportStatusRequest EXCEPT !.modid = modid, !.cmdid = 1,
                                                !.caller = 123, !.ts = ts]
        calls == << <<1, 1, 100, 3>>, <<2, 4, 100, 3>> >>
    IN  /\ server = "reporter"
        /\ Ask(id, WithResults(WithResults(req, calls, FALSE), << <<3, 9, 100, 3>> >>, TRUE))

----------------------------------------------------------------------------
(* The handlers of the services.                                           *)

NamesModule(msg, modid, cmdid) == [msg EXCEPT !.modid = modid, !.cmdid = cmdid]

(* One add_host() for every host of a list.                                *)
WithHosts(rsp, list) ==
    FoldLeft(LAMBDA r, host :
                AddHost(r, [ClearHostInfo EXCEPT !.ip = host[1], !.port = host[2]]),
             rsp, list)

(* What getTheBestHost may make of a response.                             *)
GetTheBestHost(data) ==
    LET req == ParseGetHostRequest(ClearGetHostRequest, data)
        rsp == NamesModule([ClearGetHostResponse EXCEPT !.seq = req.seq],
                           req.modid, req.cmdid)
    IN  {[rsp EXCEPT !.retcode = ret] : ret \in {RET.NOEXIST, RET.OVERLOAD}}
            \cup {SetHost(rsp, host[1], host[2]) : host \in Hosts}

(* modid and cmdid pass through ints, and back.                            *)
GetAllHosts(data) ==
    LET req == ParseGetRouteRequest(ClearGetRouteRequest, data)
        Passed(n) == Unsigned(Signed(n, WordRange), WordRange)
    IN  {WithHosts(NamesModule(ClearGetRouteResponse, Passed(req.modid), Passed(req.cmdid)),
                   list) : list \in HostLists}

Key_narrow(modid, cmdid) == (modid + Signed(cmdid, WordRange)) % LongRange

(* ((uint64_t)modid << 32) + cmdid, where both are ints: a cmdid of 2^31   *)
(* or more is negative, and takes one from the modid.                      *)
Key(modid, cmdid) ==
    (Signed(modid, WordRange) * WordRange + Signed(cmdid, WordRange)) % LongRange

(* The int that pushChangeTask takes for the modid, and the cmdid.         *)
ModidOf(key) == key \div WordRange
CmdidOf(key) == key % WordRange

Hear(id, msg) == heard' = Append(heard, [id |-> id, msg |-> msg])

msgGetTheBestHostInfoCB(data) ==
    /\ Hear(ID.GetHostRequest, ParseGetHostRequest(ClearGetHostRequest, data))
    /\ \E rsp \in GetTheBestHost(data) : Answer(ID.GetHostResponse, rsp)
    /\ UNCHANGED <<keys, tasks>>

msgReportStatusCB(data) ==
    /\ Hear(ID.ReportRequest, ParseReportRequest(ClearReportRequest, data))
    /\ UNCHANGED <<answered, down, keys, tasks>>

msgGetAllHostsCB(data) ==
    /\ Hear(ID.API_GetRouteRequest, ParseGetRouteRequest(ClearGetRouteRequest, data))
    /\ \E rsp \in GetAllHosts(data) : Answer(ID.API_GetRouteResponse, rsp)
    /\ UNCHANGED <<keys, tasks>>

msgGetRouteCB(data) ==
    LET req == ParseGetRouteRequest(ClearGetRouteRequest, data)
    IN  /\ Hear(ID.GetRouteRequest, req)
        /\ keys' = keys \cup {Key(req.modid, req.cmdid)}
        /\ tasks' = Append(tasks, CopyGetRouteRequest(req))
        /\ UNCHANGED <<answered, down>>

msgGetReportStatusCB(data) ==
    /\ Hear(ID.ReportStatusRequest,
            CopyReportStatusRequest(
                ParseReportStatusRequest(ClearReportStatusRequest, data)))
    /\ UNCHANGED <<answered, down, keys, tasks>>

(* callMsgRouter: what has no callback is dropped.                         *)
callMsgRouter(id, data) ==
    \/ /\ id \notin DOMAIN Router(server)
       /\ UNCHANGED <<answered, down, heard, keys, tasks>>
    \/ /\ id \in DOMAIN Router(server)
       /\ LET callback == Router(server)[id]
          IN  \/ callback = "msgGetTheBestHostInfoCB" /\ msgGetTheBestHostInfoCB(data)
              \/ callback = "msgReportStatusCB" /\ msgReportStatusCB(data)
              \/ callback = "msgGetAllHostsCB" /\ msgGetAllHostsCB(data)
              \/ callback = "msgGetRouteCB" /\ msgGetRouteCB(data)
              \/ callback = "msgGetReportStatusCB" /\ msgGetReportStatusCB(data)

(* One message of the loop of onMessage.                                   *)
ServerHandles ==
    /\ FrontIsWhole(up.buf)
    /\ callMsgRouter(FrontId(up.buf), FrontData(up.buf))
    /\ up' = [up EXCEPT !.buf = BehindFront(@)]
    /\ UNCHANGED <<server, asked, told, pushes>>

(* A worker of the DNS service; one worker may overtake another.           *)
threadPoolWorkTask(i) ==
    /\ i \in DOMAIN tasks /\ i <= Workers
    /\ \E list \in HostLists :
        Answer(ID.GetRouteResponse,
               WithHosts(NamesModule(ClearGetRouteResponse, tasks[i].modid, tasks[i].cmdid),
                         list))
    /\ tasks' = RemoveAt(tasks, i)
    /\ UNCHANGED <<server, asked, up, heard, told, keys, pushes>>

(* A change of a module the client has asked for.                          *)
pushChangeTask(key) ==
    /\ pushes < MaxPushes
    /\ pushes' = pushes + 1
    /\ \E list \in HostLists :
        Answer(ID.GetRouteResponse,
               WithHosts(NamesModule(ClearGetRouteResponse, ModidOf(key), CmdidOf(key)),
                         list))
    /\ UNCHANGED <<server, asked, up, heard, told, keys, tasks>>

----------------------------------------------------------------------------
(* The handlers of the clients.                                            *)

(* DnsClient takes every message for a response, whatever its id.          *)
TellAgent(id, data) ==
    told' = Append(told, [id |-> ID.GetRouteResponse,
                          msg |-> ParseGetRouteResponse(ClearGetRouteResponse, data)])

msgRecvTheBestHostInfoCB(data) ==
    told' = Append(told, [id |-> ID.GetHostResponse,
                          msg |-> ParseGetHostResponse(ClearGetHostResponse, data)])

msgRecvAllHostsCB(data) ==
    told' = Append(told, [id |-> ID.API_GetRouteResponse,
                          msg |-> ParseGetRouteResponse(ClearGetRouteResponse, data)])

TellApi(id, data) ==
    \/ id \notin DOMAIN AgentClientRouter /\ UNCHANGED told
    \/ /\ id \in DOMAIN AgentClientRouter
       /\ \/ /\ AgentClientRouter[id] = "msgRecvTheBestHostInfoCB"
             /\ msgRecvTheBestHostInfoCB(data)
          \/ /\ AgentClientRouter[id] = "msgRecvAllHostsCB"
             /\ msgRecvAllHostsCB(data)

ClientHandles ==
    /\ FrontIsWhole(down.buf)
    /\ IF server = "agent" THEN TellApi(FrontId(down.buf), FrontData(down.buf))
                           ELSE TellAgent(FrontId(down.buf), FrontData(down.buf))
    /\ down' = [down EXCEPT !.buf = BehindFront(@)]
    /\ UNCHANGED <<server, asked, answered, up, heard, keys, tasks, pushes>>

----------------------------------------------------------------------------
(* Bytes arrive, in any chunks.  onMessage has then come to the end of its *)
(* loop.                                                                   *)
Received(way, n) ==
    LET taken == IF n < Len(way.wire) THEN n ELSE Len(way.wire)
    IN  [wire |-> SubSeq(way.wire, taken + 1, Len(way.wire)),
         buf |-> way.buf \o SubSeq(way.wire, 1, taken)]

ArriveUp(n) ==
    /\ up.wire # <<>> /\ ~FrontIsWhole(up.buf)
    /\ up' = Received(up, n)
    /\ UNCHANGED <<server, asked, answered, down, heard, told, keys, tasks, pushes>>

ArriveDown(n) ==
    /\ down.wire # <<>> /\ ~FrontIsWhole(down.buf)
    /\ down' = Received(down, n)
    /\ UNCHANGED <<server, asked, answered, up, heard, told, keys, tasks, pushes>>

Next ==
    \/ \E mod \in Modules :
        \/ \E id \in {ID.GetHostRequest} \cup Strays :
            sendGetBestHostRequestMsg(id, mod, Len(asked) + 1)
        \/ \E id \in {ID.API_GetRouteRequest} \cup Strays : sendGetAllHostsRequestMsg(id, mod)
        \/ \E host \in Hosts, retcode \in Retcodes :
            sendReportRequestMsg(ID.ReportRequest, mod, host, retcode)
        \/ pullHostFromDns(mod)
        \/ \E report \in Reports : pushCallResultToReport(mod, report, Len(asked) + 1)
    \/ \E id \in {ID.GetRouteRequest} \cup Strays : sendRouteRequestMsg(id)
    \/ \E id \in {ID.ReportStatusRequest} \cup Strays, modid \in 1 .. 3 :
        sendReportStatusRequestMsg(id, modid, Len(asked) + 1)
    \/ \E n \in Chunks : ArriveUp(n) \/ ArriveDown(n)
    \/ ServerHandles \/ ClientHandles
    \/ \E i \in 1 .. Workers : threadPoolWorkTask(i)
    \/ \E key \in keys : pushChangeTask(key)

Spec == Init /\ [][Next]_vars

----------------------------------------------------------------------------
MessageType(id) ==
    CASE id \in {ID.GetRouteRequest, ID.API_GetRouteRequest} -> GetRouteRequestType
      [] id \in {ID.GetRouteResponse, ID.API_GetRouteResponse} -> GetRouteResponseType
      [] id = ID.GetHostRequest -> GetHostRequestType
      [] id = ID.GetHostResponse -> GetHostResponseType
      [] id = ID.ReportRequest -> ReportRequestType
      [] id = ID.ReportStatusRequest -> ReportStatusRequestType

(* Whatever is read has the type of the message its id stands for, with    *)
(* nothing unknown in it: numbers are cut to their width, negative ones    *)
(* come back as negative ones (_InternalParse of lars.pb.cc).              *)
TypeOK ==
    /\ server \in {"agent", "dns", "reporter"}
    /\ \A i \in DOMAIN heard : heard[i].msg \in MessageType(heard[i].id)
    /\ \A i \in DOMAIN told : told[i].msg \in MessageType(told[i].id)
    /\ keys \subseteq 0 .. LongRange - 1
    /\ \A i \in DOMAIN tasks : tasks[i] \in GetRouteRequestType

(* The messages with one of these ids.                                     *)
TakeIfWanted(taken, m) ==
    IF m.id \in taken.wanted THEN [taken EXCEPT !.some = Append(@, m)] ELSE taken

Those(messages, ids) ==
    FoldLeft(TakeIfWanted, [wanted |-> ids, some |-> <<>>], messages).some

(* The messages of a connection that can be handled: those before the      *)
(* first that is too long, without those nobody registered for.            *)
TooLong(m) == ByteSize(m.msg) > MaxLen

Handleable(sent, ids) ==
    LET long == {i \in DOMAIN sent : TooLong(sent[i])}
        before == SubSeq(sent, 1, IF long = {} THEN Len(sent)
                                  ELSE CHOOSE i \in 0 .. Len(sent) :
                                        i + 1 \in long /\ \A j \in long : i < j)
    IN  Those(before, ids)

ServerIds == DOMAIN Router(server)
ClientIds == IF server = "agent" THEN DOMAIN AgentClientRouter ELSE {ID.GetRouteResponse}

(* Handlers are given the messages that were sent, each with all its       *)
(* fields, in order, none twice and none left out, wherever the chunks end *)
(* (AgentServer.cc:39-67 and its likes).                                   *)
HandledAsSent ==
    /\ IsPrefix(heard, Handleable(asked, ServerIds))
    /\ IsPrefix(told, Handleable(answered, ClientIds))

(* What was delivered to the end was handled to the end: a message waits   *)
(* in a buffer only if it is behind one that is too long, and then for     *)
(* ever (AgentServer.cc:50-54, DnsClient.cc:45-49).                        *)
NothingIsLeft ==
    /\ up.wire = <<>> /\ ~FrontIsWhole(up.buf) => heard = Handleable(asked, ServerIds)
    /\ down.wire = <<>> /\ ~FrontIsWhole(down.buf) =>
            told = Handleable(answered, ClientIds)

SameModule(a, b) == a.modid = b.modid /\ a.cmdid = b.cmdid

(* A client is answered what it asked: the agent answers in the order of   *)
(* the requests, with their seq; what the DNS service sends, at once or    *)
(* when a module changes, names a module the agent asked for.  This needs  *)
(* a cmdid below 2^31: DnsService.cc:81 takes others for negative ones and *)
(* DnsSubscribe.cc:86 then finds the modid before it in the key.           *)
AnswersAreAsked ==
    LET best == Those(heard, {ID.GetHostRequest})
        chosen == Those(told, {ID.GetHostResponse})
    IN  /\ \A i \in DOMAIN chosen :
            /\ SameModule(chosen[i].msg, best[i].msg)
            /\ chosen[i].msg.seq = best[i].msg.seq
        /\ \A i \in DOMAIN told :
            told[i].msg.cmdid < WordRange \div 2 =>
                \E j \in DOMAIN asked : SameModule(told[i].msg, asked[j].msg)

(* The same for every cmdid: the clients of a changed module are sent the  *)
(* hosts of that module (DnsSubscribe.h:16).                               *)
AnswersNameAsked ==
    \A i \in DOMAIN told : \E j \in DOMAIN asked : SameModule(told[i].msg, asked[j].msg)

Parse(msg, to, data) ==
    CASE DOMAIN msg = DOMAIN ClearGetRouteRequest -> ParseGetRouteRequest(to, data)
      [] DOMAIN msg = DOMAIN ClearGetRouteResponse -> ParseGetRouteResponse(to, data)
      [] DOMAIN msg = DOMAIN ClearGetHostRequest -> ParseGetHostRequest(to, data)
      [] DOMAIN msg = DOMAIN ClearGetHostResponse -> ParseGetHostResponse(to, data)
      [] DOMAIN msg = DOMAIN ClearReportRequest -> ParseReportRequest(to, data)
      [] DOMAIN msg = DOMAIN ClearReportStatusRequest -> ParseReportStatusRequest(to, data)

Merge(to, from) ==
    CASE DOMAIN to = DOMAIN ClearGetRouteRequest -> MergeGetRouteRequest(to, from)
      [] DOMAIN to = DOMAIN ClearGetRouteResponse -> MergeGetRouteResponse(to, from)
      [] DOMAIN to = DOMAIN ClearGetHostRequest -> MergeGetHostRequest(to, from)
      [] DOMAIN to = DOMAIN ClearGetHostResponse -> MergeGetHostResponse(to, from)
      [] DOMAIN to = DOMAIN ClearReportRequest -> MergeReportRequest(to, from)
      [] DOMAIN to = DOMAIN ClearReportStatusRequest -> MergeReportStatusRequest(to, from)

(* Sizes, bytes and merging agree: a message takes the bytes ByteSizeLong  *)
(* counts, which is what the head says and the length of an inner message; *)
(* and to read its bytes over an earlier message, or itself, is to merge  *)
(* the two (ByteSizeLong, _InternalSerialize, _InternalParse, MergeFrom).  *)
BytesMerge ==
    \A messages \in {asked, answered} : \A i \in DOMAIN messages :
        LET old == messages[i].msg
            new == messages[Len(messages)].msg
        IN  /\ Len(Serialize(new)) = ByteSize(new)
            /\ DOMAIN old = DOMAIN new => Parse(new, old, Serialize(new)) = Merge(old, new)
=============================================================================
