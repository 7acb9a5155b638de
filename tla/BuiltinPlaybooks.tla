-------------------------- MODULE BuiltinPlaybooks --------------------------
(***************************************************************************)
(* The built-in playbook library (backend/data/builtin_playbooks.py).  Of a*)
(* playbook the seeding reads the name, the source and the category, the   *)
(* coverage matrix the techniques among its trigger conditions and those of*)
(* its steps, which are put together here.  Titles, instructions, evidence *)
(* prompts, escalation and times of the steps are text for the analyst.    *)
(***************************************************************************)
Phishing ==
  [name |-> "Phishing / BEC Response", source |-> "cisa", category |-> "",
   techniques |-> {"T1078", "T1110", "T1114", "T1531", "T1534", "T1566", "T1566.001",
                   "T1566.002", "T1598"}]

Ransomware ==
  [name |-> "Ransomware Response", source |-> "cisa", category |-> "",
   techniques |-> {"T1021.002", "T1049", "T1057", "T1059", "T1133", "T1190", "T1210",
                   "T1486", "T1490", "T1566"}]

AccountCompromise ==
  [name |-> "Credential / Account Compromise Response", source |-> "cisa", category |-> "",
   techniques |-> {"T1003", "T1053", "T1078", "T1078.004", "T1098", "T1110", "T1133",
                   "T1134", "T1136", "T1550", "T1552", "T1556"}]

Malware ==
  [name |-> "Malware / Intrusion Response", source |-> "cisa", category |-> "",
   techniques |-> {"T1021", "T1049", "T1055", "T1057", "T1059", "T1071", "T1095",
                   "T1105", "T1204"}]

Vulnerability ==
  [name |-> "Vulnerability Response", source |-> "cisa", category |-> "",
   techniques |-> {"T1068", "T1190", "T1203"}]

DenialOfService ==
  [name |-> "Denial of Service / DDoS Response", source |-> "cisa", category |-> "",
   techniques |-> {"T1498", "T1499"}]

SupplyChainCompromise ==
  [name |-> "Supply Chain Compromise Response", source |-> "cisa", category |-> "",
   techniques |-> {"T1053", "T1071", "T1195", "T1195.002", "T1199", "T1553.002"}]

DataExfiltration ==
  [name |-> "Data Exfiltration / Breach Response", source |-> "cisa", category |-> "",
   techniques |-> {"T1020", "T1041", "T1048", "T1074", "T1078", "T1213", "T1530",
                   "T1567"}]

WebApplicationAttack ==
  [name |-> "Web Application Attack Response", source |-> "cisa", category |-> "",
   techniques |-> {"T1048", "T1055.001", "T1059.007", "T1190", "T1505.003"}]

InsiderThreat ==
  [name |-> "Insider Threat Response", source |-> "cisa", category |-> "",
   techniques |-> {"T1052", "T1074", "T1074.001", "T1078", "T1537"}]

CloudAccountCompromise ==
  [name |-> "Cloud Account Compromise Response", source |-> "cisa", category |-> "",
   techniques |-> {"T1078.004", "T1213", "T1528", "T1530", "T1537", "T1578", "T1619"}]

IcsOtIntrusion ==
  [name |-> "ICS / OT Intrusion Response", source |-> "cisa", category |-> "",
   techniques |-> {"T0801", "T0822", "T0826", "T0831", "T0836", "T0845", "T0855",
                   "T0859", "T0878", "T0886"}]

ActiveDirectory ==
  [name |-> "Active Directory Full Compromise Response", source |-> "cisa", category |-> "",
   techniques |-> {"T1003.006", "T1078.002", "T1098", "T1136.002", "T1207", "T1558.001"}]

Cryptojacking ==
  [name |-> "Cryptojacking / Resource Hijacking Response", source |-> "cisa", category |-> "",
   techniques |-> {"T1003", "T1021", "T1053", "T1190", "T1496", "T1543"}]

DestructiveWiper ==
  [name |-> "Destructive Wiper Response", source |-> "cisa", category |-> "",
   techniques |-> {"T1021.002", "T1074", "T1485", "T1490", "T1491", "T1529", "T1561",
                   "T1561.002"}]

M365TenantCompromise ==
  [name |-> "M365 Tenant Compromise Response", source |-> "cisa", category |-> "",
   techniques |-> {"T1087.004", "T1114.002", "T1114.003", "T1137", "T1213", "T1528",
                   "T1530", "T1550.001"}]

AptLongDwell ==
  [name |-> "APT / Long-Dwell Intrusion Response", source |-> "cisa", category |-> "",
   techniques |-> {"T1021", "T1041", "T1053", "T1070", "T1071", "T1074", "T1078",
                   "T1560", "T1566", "T1583", "T1586"}]

WireFraud ==
  [name |-> "Wire Fraud / Business Payment Fraud Response", source |-> "cisa", category |-> "",
   techniques |-> {"T1534", "T1566", "T1566.002", "T1586", "T1586.002", "T1657"}]

LivingOffTheLand ==
  [name |-> "Living-off-the-Land (LotL) Attack Response", source |-> "cisa", category |-> "",
   techniques |-> {"T1021.002", "T1047", "T1053.005", "T1059.001", "T1059.003", "T1218",
                   "T1218.005", "T1218.010", "T1546.003", "T1547.001"}]

PasswordSpray ==
  [name |-> "Password Spray / Credential Stuffing Response", source |-> "microsoft", category |-> "identity",
   techniques |-> {"T1078", "T1078.004", "T1098", "T1110", "T1110.003", "T1110.004",
                   "T1114", "T1531", "T1556"}]

AwsAccount ==
  [name |-> "AWS Cloud Account / IAM Credential Compromise", source |-> "aws", category |-> "cloud",
   techniques |-> {"T1078.004", "T1098", "T1530", "T1537", "T1578"}]

LateralMovement ==
  [name |-> "Lateral Movement / Pass-the-Hash Investigation", source |-> "guardsight", category |-> "network",
   techniques |-> {"T1003", "T1003.001", "T1003.002", "T1021", "T1021.002", "T1053",
                   "T1078", "T1190", "T1546", "T1547", "T1550", "T1550.002", "T1566"}]

OutboundTraffic ==
  [name |-> "Suspicious Outbound Traffic / C2 Beaconing", source |-> "cert_sg", category |-> "network",
   techniques |-> {"T1008", "T1059", "T1071", "T1071.001", "T1071.004", "T1095",
                   "T1571"}]

CredentialDumping ==
  [name |-> "Credential Dumping / LSASS Attack Response", source |-> "guardsight", category |-> "identity",
   techniques |-> {"T1003", "T1003.001", "T1003.002", "T1550.002", "T1558", "T1558.001"}]

ObfuscatedScript ==
  [name |-> "Obfuscated PowerShell / Script-Based Attack", source |-> "microsoft", category |-> "endpoint",
   techniques |-> {"T1027", "T1059.001", "T1562.001", "T1566", "T1620"}]

WebShell ==
  [name |-> "Web Shell Detection and Response", source |-> "cert_sg", category |-> "web",
   techniques |-> {"T1059", "T1190", "T1505.003"}]

PrivilegeEscalation ==
  [name |-> "Unauthorized Access / Privilege Escalation Response", source |-> "cert_sg", category |-> "identity",
   techniques |-> {"T1005", "T1068", "T1078", "T1134", "T1530", "T1548"}]

DnsTunneling ==
  [name |-> "DNS Tunneling / Covert Exfiltration Response", source |-> "community", category |-> "network",
   techniques |-> {"T1048.003", "T1071.004"}]

SocialEngineering ==
  [name |-> "Social Engineering / Vishing Response", source |-> "cert_sg", category |-> "phishing",
   techniques |-> {"T1078", "T1566", "T1598"}]

StorageExposure ==
  [name |-> "S3 / Cloud Storage Exposure Response", source |-> "aws", category |-> "cloud",
   techniques |-> {"T1078.004", "T1530"}]

BUILTIN_PLAYBOOKS ==
  <<Phishing, Ransomware, AccountCompromise, Malware, Vulnerability, DenialOfService,
    SupplyChainCompromise, DataExfiltration, WebApplicationAttack, InsiderThreat,
    CloudAccountCompromise, IcsOtIntrusion, ActiveDirectory, Cryptojacking,
    DestructiveWiper, M365TenantCompromise, AptLongDwell, WireFraud, LivingOffTheLand,
    PasswordSpray, AwsAccount, LateralMovement, OutboundTraffic, CredentialDumping,
    ObfuscatedScript, WebShell, PrivilegeEscalation, DnsTunneling, SocialEngineering,
    StorageExposure>>
=============================================================================
