------------------------- MODULE RedbackDictionary -------------------------
(***************************************************************************)
(* The attributes of radius/redback/generated.go: for each its type and    *)
(* the encoding all its accessors share.  Values are byte sequences, an    *)
(* integer its four or eight bytes; the names of enumerated values only    *)
(* print.  A tag is kept apart from the value it is encoded into.          *)
(***************************************************************************)
EXTENDS Naturals, Sequences

IPAddress(typ)     == [typ |-> typ, kind |-> "ip", tagged |-> FALSE]
Integer(typ)       == [typ |-> typ, kind |-> "integer", tagged |-> FALSE]
TaggedInteger(typ) == [typ |-> typ, kind |-> "integer", tagged |-> TRUE]
Integer64(typ)     == [typ |-> typ, kind |-> "integer64", tagged |-> FALSE]
Octets(typ)        == [typ |-> typ, kind |-> "octets", tagged |-> FALSE]
TaggedOctets(typ)  == [typ |-> typ, kind |-> "octets", tagged |-> TRUE]

ClientDNSPri                == IPAddress(1)
ClientDNSSec                == IPAddress(2)
DHCPMaxLeases               == Integer(3)
ContextName                 == Octets(4)
BridgeGroup                 == Octets(5)
BGAgingTime                 == Octets(6)
BGPathCost                  == Octets(7)
BGSpanDis                   == Octets(8)
BGTransBPDU                 == Octets(9)
RateLimitRate               == Integer(10)
RateLimitBurst              == Integer(11)
PoliceRate                  == Integer(12)
PoliceBurst                 == Integer(13)
SourceValidation            == Integer(14)

\* Mutant of TunnelDomain: the type of the next attribute.
TunnelDomain_OffByOne       == Integer(16)

TunnelDomain                == Integer(15)
TunnelLocalName             == Octets(16)
TunnelRemoteName            == Octets(17)
TunnelFunction              == Integer(18)
TunnelFlowControl           == Integer(19)
TunnelStatic                == Integer(20)
TunnelMaxSessions           == Integer(21)
TunnelMaxTunnels            == Integer(22)
TunnelSessionAuth           == Integer(23)
TunnelWindow                == Integer(24)
TunnelRetransmit            == Integer(25)
TunnelCmdTimeout            == Integer(26)
PPPOEURL                    == Octets(27)
PPPOEMOTM                   == Octets(28)
TunnelGroup                 == Integer(29)
TunnelContext               == Octets(30)
TunnelAlgorithm             == Integer(31)
TunnelDeadtime              == Integer(32)
McastSend                   == Integer(33)
McastReceive                == Integer(34)
McastMaxGroups              == Integer(35)
IPAddressPoolName           == Octets(36)
TunnelDNIS                  == Integer(37)
MediumType                  == Integer(38)
PVCEncapsulationType        == Integer(39)
PVCProfileName              == Octets(40)
PVCCircuitPadding           == Integer(41)
BindType                    == Integer(42)
BindAuthProtocol            == Integer(43)
BindAuthMaxSessions         == Integer(44)
BindBypassBypass            == Octets(45)
BindAuthContext             == Octets(46)
BindAuthServiceGrp          == Octets(47)
BindBypassContext           == Octets(48)
BindIntContext              == Octets(49)
BindTunContext              == Octets(50)
BindSesContext              == Octets(51)
BindDot1qSlot               == Integer(52)
BindDot1qPort               == Integer(53)
BindDot1qVlanTagID          == Integer(54)
BindIntInterfaceName        == Octets(55)
BindL2TPTunnelName          == Octets(56)
BindL2TPFlowControl         == Integer(57)
BindSubUserAtContext        == Octets(58)
BindSubPassword             == Octets(59)
IPHostAddr                  == Octets(60)
IPTOSField                  == Integer(61)
NASRealPort                 == Integer(62)
TunnelSessionAuthCtx        == Octets(63)
TunnelSessionAuthServiceGrp == Octets(64)
TunnelRateLimitRate         == Integer(65)
TunnelRateLimitBurst        == Integer(66)
TunnelPoliceRate            == Integer(67)
TunnelPoliceBurst           == Integer(68)
TunnelL2FSecondPassword     == Octets(69)
ACLDefinition               == Octets(70)
PPPoEIPRouteAdd             == Octets(71)
TTYLevelMax                 == Integer(72)
TTYLevelStart               == Integer(73)
TunnelChecksum              == Integer(74)
TunnelProfile               == Octets(75)
TunnelClientVPN             == Octets(78)
TunnelServerVPN             == Octets(79)
TunnelClientRhost           == Octets(80)
TunnelServerRhost           == Octets(81)
TunnelClientIntAddr         == IPAddress(82)
TunnelServerIntAddr         == IPAddress(83)
PPPCompression              == Integer(84)
TunnelHelloTimer            == TaggedInteger(85)
RedbackReason               == Integer(86)
QosPolicingProfileName      == Octets(87)
QosMeteringProfileName      == Octets(88)
QosPolicyQueuing            == Octets(89)
IGMPServiceProfileName      == Octets(90)
SubscriberProfileName       == Octets(91)
ForwardPolicy               == Octets(92)
RemotePort                  == Octets(93)
Reauth                      == Octets(94)
ReauthMore                  == Integer(95)
AgentRemoteID               == Octets(96)
AgentCircuitID              == Octets(97)
PlatformType                == Integer(98)
ClientNBNSPri               == IPAddress(99)
ClientNBNSSec               == IPAddress(100)
ShapingProfileName          == Octets(101)
BGCctAddrMax                == Integer(103)
IPInterfaceName             == Octets(104)
NATPolicyName               == Octets(105)
RBNPMServiceID              == Octets(106)
HTTPRedirectProfileName     == Octets(107)
BindAutoSubUser             == Octets(108)
BindAutoSubContext          == Octets(109)
BindAutoSubPassword         == Octets(110)
CircuitProtocolEncap        == Integer(111)
OSVersion                   == Octets(112)
SessionTrafficLimit         == Octets(113)
QOSReference                == Octets(114)
RateLimitExcessBurst        == Octets(121)
PoliceExcessBurst           == Octets(122)
TunnelRateLimitExcessBurst  == Octets(123)
TunnelPoliceExcessBurst     == Octets(124)
DHCPVendorClassID           == Octets(125)
QosRate                     == Octets(126)
DHCPVendorEncapOption       == Octets(127)
AcctInputOctets64           == Integer64(128)
AcctOutputOctets64          == Integer64(129)
AcctInputPackets64          == Integer64(130)
AcctOutputPackets64         == Integer64(131)
AssignedIPAddress           == IPAddress(132)
AcctMcastInOctets64         == Integer64(133)
AcctMcastOutOctets64        == Integer64(134)
AcctMcastInPackets64        == Integer64(135)
AcctMcastOutPackets64       == Integer64(136)
LACPort                     == Integer(137)
LACRealPort                 == Integer(138)
LACPortType                 == Integer(139)
LACRealPortType             == Integer(140)
AcctDynAcEnt                == Octets(141)
SessionErrorCode            == Integer(142)
SessionErrorMsg             == Octets(143)
AcctUpdateReason            == Integer(144)
MacAddr                     == Octets(145)
VlanSourceInfo              == Octets(146)
AcctMcastInOctets           == Integer(147)
AcctMcastOutOctets          == Integer(148)
AcctMcastInPackets          == Integer(149)
AcctMcastOutPackets         == Integer(150)
ReauthSessionID             == Octets(151)
QOSRateInbound              == Octets(156)
QOSRateOutbound             == Octets(157)
RouteTag                    == Integer(158)
LIID                        == Integer(159)
LIMdAddress                 == IPAddress(160)
LIMdPort                    == Integer(161)
LIAction                    == Integer(162)
LIProfile                   == Octets(163)
DynamicPolicyFilter         == Octets(164)
HTTPRedirectURL             == Octets(165)
DSLActualRateUp             == Integer(166)
DSLActualRateDown           == Integer(167)
DSLMinRateUp                == Integer(168)
DSLMinRateDown              == Integer(169)
DSLAttainableRateUp         == Integer(170)
DSLAttainableRateDown       == Integer(171)
DSLMaxRateUp                == Integer(172)
DSLMaxRateDown              == Integer(173)
DSLMinLowPowerRateUp        == Integer(174)
DSLMinLowPowerRateDown      == Integer(175)
DSLMaxInterDelayUp          == Integer(176)
DSLActualInterDelayUp       == Integer(177)
DSLMaxInterDelayDown        == Integer(178)
DSLActualInterDelayDown     == Integer(179)
DSLLineState                == Integer(180)
DSLL2Encapsulation          == Integer(181)
DSLTransmissionSystem       == Integer(182)
DSLPPPOAPPPOEInterWorkFlag  == Integer(183)
DSLActualRateDownFactor     == Integer(185)
DSLCombinedLineInfo         == Octets(184)
ClassVolumeLimit            == Octets(186)
ClassVolumeInCounter        == Octets(187)
ClassVolumeOutCounter       == Octets(188)
FlowFACProfile              == Octets(189)
ServiceName                 == TaggedOctets(190)
ServiceAction               == TaggedInteger(191)
ServiceParameter            == TaggedOctets(192)
ServiceErrorCause           == TaggedInteger(193)
DeactivateServiceName       == TaggedOctets(194)
QosProfileOverhead          == Octets(195)
DynamicQoSParam             == Octets(196)
AcctAltSessionID            == Octets(197)
IdleTimeoutThreshold        == Integer(198)
DoubleAuthentication        == Integer(199)
SBCAdjacency                == Octets(200)
DHCPField                   == Octets(201)
DHCPOption                  == Octets(202)
SecurityService             == Octets(203)
ReauthServiceName           == TaggedOctets(204)
FlowIPProfile               == Octets(205)
RadiusThrottleWatermark     == Integer(206)

Dictionary == {
    ClientDNSPri, ClientDNSSec, DHCPMaxLeases, ContextName, BridgeGroup, BGAgingTime,
    BGPathCost, BGSpanDis, BGTransBPDU, RateLimitRate, RateLimitBurst, PoliceRate,
    PoliceBurst, SourceValidation, TunnelDomain, TunnelLocalName, TunnelRemoteName,
    TunnelFunction, TunnelFlowControl, TunnelStatic, TunnelMaxSessions, TunnelMaxTunnels,
    TunnelSessionAuth, TunnelWindow, TunnelRetransmit, TunnelCmdTimeout, PPPOEURL,
    PPPOEMOTM, TunnelGroup, TunnelContext, TunnelAlgorithm, TunnelDeadtime, McastSend,
    McastReceive, McastMaxGroups, IPAddressPoolName, TunnelDNIS, MediumType,
    PVCEncapsulationType, PVCProfileName, PVCCircuitPadding, BindType, BindAuthProtocol,
    BindAuthMaxSessions, BindBypassBypass, BindAuthContext, BindAuthServiceGrp,
    BindBypassContext, BindIntContext, BindTunContext, BindSesContext, BindDot1qSlot,
    BindDot1qPort, BindDot1qVlanTagID, BindIntInterfaceName, BindL2TPTunnelName,
    BindL2TPFlowControl, BindSubUserAtContext, BindSubPassword, IPHostAddr, IPTOSField,
    NASRealPort, TunnelSessionAuthCtx, TunnelSessionAuthServiceGrp, TunnelRateLimitRate,
    TunnelRateLimitBurst, TunnelPoliceRate, TunnelPoliceBurst, TunnelL2FSecondPassword,
    ACLDefinition, PPPoEIPRouteAdd, TTYLevelMax, TTYLevelStart, TunnelChecksum,
    TunnelProfile, TunnelClientVPN, TunnelServerVPN, TunnelClientRhost, TunnelServerRhost,
    TunnelClientIntAddr, TunnelServerIntAddr, PPPCompression, TunnelHelloTimer,
    RedbackReason, QosPolicingProfileName, QosMeteringProfileName, QosPolicyQueuing,
    IGMPServiceProfileName, SubscriberProfileName, ForwardPolicy, RemotePort, Reauth,
    ReauthMore, AgentRemoteID, AgentCircuitID, PlatformType, ClientNBNSPri, ClientNBNSSec,
    ShapingProfileName, BGCctAddrMax, IPInterfaceName, NATPolicyName, RBNPMServiceID,
    HTTPRedirectProfileName, BindAutoSubUser, BindAutoSubContext, BindAutoSubPassword,
    CircuitProtocolEncap, OSVersion, SessionTrafficLimit, QOSReference,
    RateLimitExcessBurst, PoliceExcessBurst, TunnelRateLimitExcessBurst,
    TunnelPoliceExcessBurst, DHCPVendorClassID, QosRate, DHCPVendorEncapOption,
    AcctInputOctets64, AcctOutputOctets64, AcctInputPackets64, AcctOutputPackets64,
    AssignedIPAddress, AcctMcastInOctets64, AcctMcastOutOctets64, AcctMcastInPackets64,
    AcctMcastOutPackets64, LACPort, LACRealPort, LACPortType, LACRealPortType,
    AcctDynAcEnt, SessionErrorCode, SessionErrorMsg, AcctUpdateReason, MacAddr,
    VlanSourceInfo, AcctMcastInOctets, AcctMcastOutOctets, AcctMcastInPackets,
    AcctMcastOutPackets, ReauthSessionID, QOSRateInbound, QOSRateOutbound, RouteTag, LIID,
    LIMdAddress, LIMdPort, LIAction, LIProfile, DynamicPolicyFilter, HTTPRedirectURL,
    DSLActualRateUp, DSLActualRateDown, DSLMinRateUp, DSLMinRateDown, DSLAttainableRateUp,
    DSLAttainableRateDown, DSLMaxRateUp, DSLMaxRateDown, DSLMinLowPowerRateUp,
    DSLMinLowPowerRateDown, DSLMaxInterDelayUp, DSLActualInterDelayUp,
    DSLMaxInterDelayDown, DSLActualInterDelayDown, DSLLineState, DSLL2Encapsulation,
    DSLTransmissionSystem, DSLPPPOAPPPOEInterWorkFlag, DSLActualRateDownFactor,
    DSLCombinedLineInfo, ClassVolumeLimit, ClassVolumeInCounter, ClassVolumeOutCounter,
    FlowFACProfile, ServiceName, ServiceAction, ServiceParameter, ServiceErrorCause,
    DeactivateServiceName, QosProfileOverhead, DynamicQoSParam, AcctAltSessionID,
    IdleTimeoutThreshold, DoubleAuthentication, SBCAdjacency, DHCPField, DHCPOption,
    SecurityService, ReauthServiceName, FlowIPProfile, RadiusThrottleWatermark}
=============================================================================
