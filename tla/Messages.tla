------------------------------ MODULE Messages ------------------------------
(***************************************************************************)
(* The messages of lars.proto, as the generated code reads, writes, sizes, *)
(* merges and clears them.  A message is the record of its fields and of   *)
(* the unknown fields it was read with; a field that was never set has its *)
(* default value.                                                          *)
(***************************************************************************)
EXTENDS Wire

Longs == -(LongRange \div 2) .. LongRange \div 2 - 1
Ints == -(WordRange \div 2) .. WordRange \div 2 - 1

(* Merging takes over what is not zero.                                    *)
Latest(old, new) == IF new # 0 THEN new ELSE old
LatestFlag(old, new) == new \/ old

----------------------------------------------------------------------------
HostInfoType == [ip : Words, port : Words, unknown : {<<>>}]

ClearHostInfo == [ip |-> 0, port |-> 0, unknown |-> <<>>]

HostInfoField(m, f) ==
    CASE f.tag = 8  -> [m EXCEPT !.ip = UInt32Of(f)]
      [] f.tag = 16 -> [m EXCEPT !.port = UInt32Of(f)]
      [] OTHER      -> KeepUnknown(m, f)

ParseHostInfo(m, bytes) == FoldLeft(HostInfoField, m, Fields[bytes])

SerializeHostInfo(m) ==
    UInt32Field(1, m.ip) \o UInt32Field(2, m.port) \o m.unknown

ByteSizeHostInfo(m) ==
    UInt32FieldSize(m.ip) + UInt32FieldSize(m.port) + Len(m.unknown)

MergeHostInfo(to, from) ==
    [ip |-> Latest(to.ip, from.ip), port |-> Latest(to.port, from.port),
     unknown |-> to.unknown \o from.unknown]

(* Every CopyFrom clears and merges.                                       *)
CopyHostInfo(from) == MergeHostInfo(ClearHostInfo, from)

----------------------------------------------------------------------------
GetRouteRequestType == [modid : Words, cmdid : Words, unknown : {<<>>}]

ClearGetRouteRequest == [modid |-> 0, cmdid |-> 0, unknown |-> <<>>]

GetRouteRequestField(m, f) ==
    CASE f.tag = 8  -> [m EXCEPT !.modid = UInt32Of(f)]
      [] f.tag = 16 -> [m EXCEPT !.cmdid = UInt32Of(f)]
      [] OTHER      -> KeepUnknown(m, f)

ParseGetRouteRequest(m, bytes) == FoldLeft(GetRouteRequestField, m, Fields[bytes])

SerializeGetRouteRequest(m) ==
    UInt32Field(1, m.modid) \o UInt32Field(2, m.cmdid) \o m.unknown

ByteSizeGetRouteRequest(m) ==
    UInt32FieldSize(m.modid) + UInt32FieldSize(m.cmdid) + Len(m.unknown)

MergeGetRouteRequest(to, from) ==
    [modid |-> Latest(to.modid, from.modid), cmdid |-> Latest(to.cmdid, from.cmdid),
     unknown |-> to.unknown \o from.unknown]

CopyGetRouteRequest(from) == MergeGetRouteRequest(ClearGetRouteRequest, from)

----------------------------------------------------------------------------
GetRouteResponseType ==
    [modid : Words, cmdid : Words, host : Seq(HostInfoType), unknown : {<<>>}]

ClearGetRouteResponse ==
    [modid |-> 0, cmdid |-> 0, host |-> <<>>, unknown |-> <<>>]

(* add_host() and what the callers do with it.                             *)
AddHost(m, host) == [m EXCEPT !.host = Append(@, CopyHostInfo(host))]

GetRouteResponseField(m, f) ==
    CASE f.tag = 8  -> [m EXCEPT !.modid = UInt32Of(f)]
      [] f.tag = 16 -> [m EXCEPT !.cmdid = UInt32Of(f)]
      [] f.tag = 26 -> [m EXCEPT !.host = Append(@, ParseHostInfo(ClearHostInfo, f.body))]
      [] OTHER      -> KeepUnknown(m, f)

ParseGetRouteResponse(m, bytes) == FoldLeft(GetRouteResponseField, m, Fields[bytes])

(* One field for every host.                                               *)
HostFields(hosts) ==
    FoldLeft(LAMBDA bytes, host : bytes \o MessageField(3, SerializeHostInfo(host)),
             <<>>, hosts)
HostFieldsSize(hosts) ==
    FoldLeft(LAMBDA size, host : size + MessageFieldSize(ByteSizeHostInfo(host)), 0, hosts)

SerializeGetRouteResponse(m) ==
    UInt32Field(1, m.modid) \o UInt32Field(2, m.cmdid) \o HostFields(m.host) \o m.unknown

ByteSizeGetRouteResponse(m) ==
    HostFieldsSize(m.host) + UInt32FieldSize(m.modid) + UInt32FieldSize(m.cmdid)
    + Len(m.unknown)

MergeGetRouteResponse(to, from) ==
    [modid |-> Latest(to.modid, from.modid), cmdid |-> Latest(to.cmdid, from.cmdid),
     host |-> to.host \o from.host, unknown |-> to.unknown \o from.unknown]

----------------------------------------------------------------------------
HostCallResultType ==
    [ip : Words, port : Words, succ : Words, err : Words, overload : BOOLEAN,
     unknown : {<<>>}]

ClearHostCallResult ==
    [ip |-> 0, port |-> 0, succ |-> 0, err |-> 0, overload |-> FALSE, unknown |-> <<>>]

HostCallResultField(m, f) ==
    CASE f.tag = 8  -> [m EXCEPT !.ip = UInt32Of(f)]
      [] f.tag = 16 -> [m EXCEPT !.port = UInt32Of(f)]
      [] f.tag = 24 -> [m EXCEPT !.succ = UInt32Of(f)]
      [] f.tag = 32 -> [m EXCEPT !.err = UInt32Of(f)]
      [] f.tag = 40 -> [m EXCEPT !.overload = BoolOf(f)]
      [] OTHER      -> KeepUnknown(m, f)

ParseHostCallResult(m, bytes) == FoldLeft(HostCallResultField, m, Fields[bytes])

SerializeHostCallResult(m) ==
    UInt32Field(1, m.ip) \o UInt32Field(2, m.port) \o UInt32Field(3, m.succ)
    \o UInt32Field(4, m.err) \o BoolField(5, m.overload) \o m.unknown

ByteSizeHostCallResult(m) ==
    UInt32FieldSize(m.ip) + UInt32FieldSize(m.port) + UInt32FieldSize(m.succ)
    + UInt32FieldSize(m.err) + BoolFieldSize(m.overload) + Len(m.unknown)

MergeHostCallResult(to, from) ==
    [ip |-> Latest(to.ip, from.ip), port |-> Latest(to.port, from.port),
     succ |-> Latest(to.succ, from.succ), err |-> Latest(to.err, from.err),
     overload |-> LatestFlag(to.overload, from.overload),
     unknown |-> to.unknown \o from.unknown]

CopyHostCallResult(from) == MergeHostCallResult(ClearHostCallResult, from)

----------------------------------------------------------------------------
ReportStatusRequestType ==
    [modid : Words, cmdid : Words, caller : Words, ts : Longs,
     results : Seq(HostCallResultType), unknown : {<<>>}]

ClearReportStatusRequest ==
    [modid |-> 0, cmdid |-> 0, caller |-> 0, ts |-> 0, results |-> <<>>,
     unknown |-> <<>>]

(* add_results() and what the callers do with it.                          *)
AddResult(m, result) == [m EXCEPT !.results = Append(@, CopyHostCallResult(result))]

ReportStatusRequestField(m, f) ==
    CASE f.tag = 8  -> [m EXCEPT !.modid = UInt32Of(f)]
      [] f.tag = 16 -> [m EXCEPT !.cmdid = UInt32Of(f)]
      [] f.tag = 24 -> [m EXCEPT !.caller = UInt32Of(f)]
      [] f.tag = 32 -> [m EXCEPT !.ts = Int64Of(f)]
      [] f.tag = 42 ->
            [m EXCEPT !.results =
                Append(@, ParseHostCallResult(ClearHostCallResult, f.body))]
      [] OTHER      -> KeepUnknown(m, f)

ParseReportStatusRequest(m, bytes) ==
    FoldLeft(ReportStatusRequestField, m, Fields[bytes])

(* One field for every result.                                             *)
ResultFields(results) ==
    FoldLeft(LAMBDA bytes, result : bytes \o MessageField(5, SerializeHostCallResult(result)),
             <<>>, results)
ResultFieldsSize(results) ==
    FoldLeft(LAMBDA size, result : size + MessageFieldSize(ByteSizeHostCallResult(result)),
             0, results)

SerializeReportStatusRequest(m) ==
    UInt32Field(1, m.modid) \o UInt32Field(2, m.cmdid) \o UInt32Field(3, m.caller)
    \o IntField(4, m.ts) \o ResultFields(m.results) \o m.unknown

ByteSizeReportStatusRequest(m) ==
    ResultFieldsSize(m.results) + UInt32FieldSize(m.modid) + UInt32FieldSize(m.cmdid)
    + IntFieldSize(m.ts) + UInt32FieldSize(m.caller) + Len(m.unknown)

MergeReportStatusRequest(to, from) ==
    [modid |-> Latest(to.modid, from.modid), cmdid |-> Latest(to.cmdid, from.cmdid),
     caller |-> Latest(to.caller, from.caller), ts |-> Latest(to.ts, from.ts),
     results |-> to.results \o from.results, unknown |-> to.unknown \o from.unknown]

CopyReportStatusRequest(from) == MergeReportStatusRequest(ClearReportStatusRequest, from)

----------------------------------------------------------------------------
(* A host that was never set is a null pointer; reading it gives the       *)
(* default host, writing to it makes one.                                  *)
NoHost == <<>>
HasHost(m) == m.host # NoHost
HostOf(m) == IF HasHost(m) THEN m.host ELSE ClearHostInfo

SetHost(m, ip, port) ==
    [m EXCEPT !.host = [HostOf(m) EXCEPT !.ip = ip, !.port = port]]

ReadHost(m, f) == [m EXCEPT !.host = ParseHostInfo(HostOf(m), f.body)]

HostField(number, m) ==
    IF HasHost(m) THEN MessageField(number, SerializeHostInfo(m.host)) ELSE <<>>

HostFieldSize(m) ==
    IF HasHost(m) THEN MessageFieldSize(ByteSizeHostInfo(m.host)) ELSE 0

(* Mistakes the checked properties must notice: a variant X_mistake stands *)
(* in for X in a mutation run, and nothing else uses it.                   *)
MergeHost_replaces(to, from) ==
    IF HasHost(from) THEN CopyHostInfo(from.host) ELSE to.host

MergeHost(to, from) ==
    IF HasHost(from) THEN MergeHostInfo(HostOf(to), from.host) ELSE to.host

----------------------------------------------------------------------------
ReportRequestType ==
    [modid : Words, cmdid : Words, host : HostInfoType \cup {NoHost}, retcode : Ints,
     unknown : {<<>>}]

ClearReportRequest ==
    [modid |-> 0, cmdid |-> 0, host |-> NoHost, retcode |-> 0, unknown |-> <<>>]

ReportRequestField(m, f) ==
    CASE f.tag = 8  -> [m EXCEPT !.modid = UInt32Of(f)]
      [] f.tag = 16 -> [m EXCEPT !.cmdid = UInt32Of(f)]
      [] f.tag = 26 -> ReadHost(m, f)
      [] f.tag = 32 -> [m EXCEPT !.retcode = Int32Of(f)]
      [] OTHER      -> KeepUnknown(m, f)

ParseReportRequest(m, bytes) == FoldLeft(ReportRequestField, m, Fields[bytes])

SerializeReportRequest(m) ==
    UInt32Field(1, m.modid) \o UInt32Field(2, m.cmdid) \o HostField(3, m)
    \o IntField(4, m.retcode) \o m.unknown

ByteSizeReportRequest(m) ==
    HostFieldSize(m) + UInt32FieldSize(m.modid) + UInt32FieldSize(m.cmdid)
    + IntFieldSize(m.retcode) + Len(m.unknown)

MergeReportRequest(to, from) ==
    [modid |-> Latest(to.modid, from.modid), cmdid |-> Latest(to.cmdid, from.cmdid),
     host |-> MergeHost(to, from), retcode |-> Latest(to.retcode, from.retcode),
     unknown |-> to.unknown \o from.unknown]

----------------------------------------------------------------------------
GetHostRequestType == [seq : Words, modid : Words, cmdid : Words, unknown : {<<>>}]

ClearGetHostRequest == [seq |-> 0, modid |-> 0, cmdid |-> 0, unknown |-> <<>>]

GetHostRequestField(m, f) ==
    CASE f.tag = 8  -> [m EXCEPT !.seq = UInt32Of(f)]
      [] f.tag = 16 -> [m EXCEPT !.modid = UInt32Of(f)]
      [] f.tag = 24 -> [m EXCEPT !.cmdid = UInt32Of(f)]
      [] OTHER      -> KeepUnknown(m, f)

ParseGetHostRequest(m, bytes) == FoldLeft(GetHostRequestField, m, Fields[bytes])

SerializeGetHostRequest(m) ==
    UInt32Field(1, m.seq) \o UInt32Field(2, m.modid) \o UInt32Field(3, m.cmdid)
    \o m.unknown

ByteSizeGetHostRequest(m) ==
    UInt32FieldSize(m.seq) + UInt32FieldSize(m.modid) + UInt32FieldSize(m.cmdid)
    + Len(m.unknown)

MergeGetHostRequest(to, from) ==
    [seq |-> Latest(to.seq, from.seq), modid |-> Latest(to.modid, from.modid),
     cmdid |-> Latest(to.cmdid, from.cmdid), unknown |-> to.unknown \o from.unknown]

----------------------------------------------------------------------------
GetHostResponseType ==
    [seq : Words, modid : Words, cmdid : Words, retcode : Words,
     host : HostInfoType \cup {NoHost}, unknown : {<<>>}]

ClearGetHostResponse ==
    [seq |-> 0, modid |-> 0, cmdid |-> 0, retcode |-> 0, host |-> NoHost,
     unknown |-> <<>>]

GetHostResponseField(m, f) ==
    CASE f.tag = 8  -> [m EXCEPT !.seq = UInt32Of(f)]
      [] f.tag = 16 -> [m EXCEPT !.modid = UInt32Of(f)]
      [] f.tag = 24 -> [m EXCEPT !.cmdid = UInt32Of(f)]
      [] f.tag = 32 -> [m EXCEPT !.retcode = UInt32Of(f)]
      [] f.tag = 42 -> ReadHost(m, f)
      [] OTHER      -> KeepUnknown(m, f)

ParseGetHostResponse(m, bytes) == FoldLeft(GetHostResponseField, m, Fields[bytes])

SerializeGetHostResponse(m) ==
    UInt32Field(1, m.seq) \o UInt32Field(2, m.modid) \o UInt32Field(3, m.cmdid)
    \o UInt32Field(4, m.retcode) \o HostField(5, m) \o m.unknown

ByteSizeGetHostResponse(m) ==
    HostFieldSize(m) + UInt32FieldSize(m.seq) + UInt32FieldSize(m.modid)
    + UInt32FieldSize(m.cmdid) + UInt32FieldSize(m.retcode) + Len(m.unknown)

MergeGetHostResponse(to, from) ==
    [seq |-> Latest(to.seq, from.seq), modid |-> Latest(to.modid, from.modid),
     cmdid |-> Latest(to.cmdid, from.cmdid), retcode |-> Latest(to.retcode, from.retcode),
     host |-> MergeHost(to, from), unknown |-> to.unknown \o from.unknown]
=============================================================================
