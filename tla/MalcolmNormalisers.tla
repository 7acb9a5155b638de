------------------------- MODULE MalcolmNormalisers --------------------------
(***************************************************************************)
(* The normalisers of MalcolmCollector, one for each kind of log: which    *)
(* keys of an OpenSearch document each column of the event is taken from,  *)
(* in which order they are tried, and how the value is converted.          *)
(*                                                                         *)
(* A document maps some keys to values; "a/b" is a key of a nested object, *)
(* "a.b" a flat one.  A value is a "text" that is no numeral, a "number"   *)
(* (or a numeral), or a "list".  Empty values count as absent.  Times fall *)
(* back to the clock and are left out, as are ids and the raw event.       *)
(***************************************************************************)
EXTENDS Naturals, Sequences

Column(col, from, how, other) == [col |-> col, from |-> from, how |-> how, other |-> other]
Str(col, from) == Column(col, from, "str", <<>>)    \* str(v), bool(v), _safe_int(v)
Num(col, from) == Column(col, from, "num", <<>>)    \* int(v) or float(v), unguarded
Raw(col, from) == Column(col, from, "raw", <<>>)    \* v itself, for a column of text
\* v itself, if there is none of the other keys to make a text with.
Alone(col, from, other) == Column(col, from, "raw", other)

SourceIp == <<"source/ip", "src_ip">>
Eve == <<"source/ip", "src_ip", "srcip">>
Observer == {Raw("hostname", <<"observer/hostname">>)}
Agent == {Raw("hostname", <<"observer/hostname", "agent/hostname">>)}
To == {Str("dst_ip", <<"destination/ip">>)}
Ports == {Num("src_port", <<"source/port">>), Num("dst_port", <<"destination/port">>)}
EvePorts == {Num("src_port", <<"source/port", "src_port">>), Num("dst_port", <<"destination/port", "dst_port">>)}
EveEnds == EvePorts \union {Str("dst_ip", <<"destination/ip", "dst_ip">>)}
AlertEnds == EvePorts \union {Str("dst_ip", <<"destination/ip", "dst_ip", "dstip">>)}

\* A normaliser: where the source address is looked for, and without one
\* whether the document is dropped.
Normaliser(type, severity, address, columns) ==
  [type |-> type, severity |-> severity, address |-> address, required |-> TRUE, columns |-> columns]
Zeek(type, columns) == Normaliser(type, "info", SourceIp, Observer \union columns)
WithoutAddress(n) == [n EXCEPT !.required = FALSE]

Alert == Normaliser("alert", "event/severity", Eve, Agent \union AlertEnds \union
  {Raw("detection_source", <<"rule/name", "alert/signature">>)})

Syslog == WithoutAddress(Normaliser("syslog", "info", Eve,
  {Raw("hostname", <<"host/name", "hostname">>), Str("dst_ip", <<"destination/ip", "dst_ip", "dstip">>)}))

Tls == Normaliser("tls", "info", Eve, Agent \union AlertEnds \union
  {Str("tls_version", <<"tls/version", "tls.version", "tls.version_string">>),
   Str("tls_ja3", <<"tls/ja3/hash", "tls.ja3.hash", "ja3">>),
   Str("tls_ja3s", <<"tls/ja3s/hash", "tls.ja3s.hash", "ja3s">>),
   Str("tls_sni", <<"tls/sni", "tls.sni", "host/name">>),
   Str("tls_cipher", <<"tls/cipher", "tls.cipher">>),
   Str("tls_cert_subject", <<"tls/server/x509/subject/common_name", "tls.server.x509.subject.common_name">>),
   Str("tls_validation_status", <<"tls/established">>)})

Dns == Normaliser("dns_query", "info", Eve, Agent \union EveEnds \union
  {Str("dns_query", <<"dns/question/name", "dns.question.name", "dns.query">>),
   Str("dns_query_type", <<"dns/question/type", "dns.question.type", "dns.type">>),
   Str("dns_rcode", <<"dns/response_code", "dns.response_code", "dns.rcode">>),
   Str("dns_answers", <<"dns/answers", "dns.answers">>),
   Num("dns_ttl", <<"dns/answers/ttl">>)})

Fileinfo == Normaliser("file_transfer", "info", Eve, Agent \union EveEnds \union
  {Str("file_md5", <<"file/hash/md5", "file.hash.md5", "md5">>),
   Str("file_sha256_eve", <<"file/hash/sha256", "file.hash.sha256">>),
   Str("file_mime_type", <<"file/type", "file.mime_type", "file.type">>),
   Num("file_size_bytes", <<"file/size", "file.size">>)})

Anomaly == Normaliser("anomaly", "event/severity", Eve, Agent \union EveEnds \union
  {Str("detection_source", <<"event/action", "anomaly/type">>)})

Conn == Normaliser("conn", "info", Eve, Observer \union Ports \union
  {Str("dst_ip", <<"destination/ip", "dst_ip">>), Str("network_protocol", <<"network/transport">>),
   Str("conn_state", <<"zeek/conn/state", "zeek.conn.state", "network/state">>),
   Num("conn_duration", <<"network/duration", "event/duration">>),
   Num("conn_orig_bytes", <<"source/bytes", "network/bytes">>),
   Num("conn_resp_bytes", <<"destination/bytes">>)})

Weird == Normaliser("weird", "high", Eve, Observer \union To \union Ports \union
  {Str("zeek_weird_name", <<"zeek/weird/name", "zeek.weird.name", "weird_name">>)})

Http == Zeek("http", To \union Ports \union
  {Raw("http_method", <<"http/request/method", "zeek.http.method">>),
   Raw("http_uri", <<"url/original", "url.original">>),
   Num("http_status_code", <<"http/response/status_code", "zeek.http.status_code">>),
   Raw("http_user_agent", <<"user_agent/original", "user_agent.original">>),
   Raw("domain", <<"destination/domain", "url/domain">>),
   Raw("http_referrer", <<"http/request/referrer", "zeek/http/referrer", "zeek.http.referrer">>),
   Str("http_request_body_len", <<"http/request/body/bytes", "zeek/http/request_body_len", "zeek.http.request_body_len">>),
   Str("http_response_body_len", <<"http/response/body/bytes", "zeek/http/response_body_len", "zeek.http.response_body_len">>),
   Raw("http_resp_mime_type", <<"zeek/http/resp_mime_types/0", "zeek.http.resp_mime_types">>)})

Ssl == Zeek("ssl", To \union Ports \union
  {Raw("tls_version", <<"tls/version", "zeek/ssl/version">>),
   Raw("tls_ja3", <<"tls/client/ja3", "tls.client.ja3">>),
   Raw("tls_sni", <<"zeek/ssl/server_name", "zeek.ssl.server_name", "tls/client/server_name">>),
   Raw("tls_cert_subject", <<"tls/server/subject", "zeek/ssl/subject">>)})

X509 == Zeek("x509", To \union
  {Raw("tls_cert_subject", <<"zeek/x509/subject", "tls/server/subject", "zeek.x509.subject">>)})

Files == Zeek("files", To \union
  {Raw("file_md5", <<"file/hash/md5", "zeek/files/md5">>), Raw("file_sha256_eve", <<"file/hash/sha256">>),
   Raw("file_mime_type", <<"file/mime_type", "zeek/files/mime_type">>),
   Num("file_size_bytes", <<"file/size", "zeek/files/total_bytes">>),
   Raw("file_path", <<"file/name", "zeek/files/filename">>)})

Notice == [Zeek("notice", To \union {Str("zeek_notice_note", <<"zeek/notice/note", "zeek.notice.note">>),
  Str("zeek_notice_msg", <<"zeek/notice/msg", "zeek.notice.msg">>)}) EXCEPT !.severity = "high"]

Kerberos == Zeek("kerberos_tgs_request", To \union Ports \union
  {Str(c, <<"zeek/kerberos/client", "zeek.kerberos.client">>) : c \in {"username", "kerberos_client"}} \union
  {Str("kerberos_service", <<"zeek/kerberos/service", "zeek.kerberos.service">>)})

Ntlm == Zeek("ntlm_auth", To \union
  {Str(c, <<"zeek/ntlm/username", "zeek.ntlm.username">>) : c \in {"username", "ntlm_username"}} \union
  {Str("ntlm_domain", <<"zeek/ntlm/domain", "zeek.ntlm.domain">>)})

Ssh == Zeek("ssh", To \union Ports \union
  {Str("ssh_auth_success", <<"zeek/ssh/auth_success", "zeek.ssh.auth_success">>),
   Num("ssh_version", <<"zeek/ssh/version", "zeek.ssh.version">>)})

SmbMapping == Zeek("smb_mapping", To \union {Str("smb_path", <<"zeek/smb_mapping/path", "zeek.smb_mapping.path">>)})

SmbFiles == Zeek("smb_files", To \union
  {Str("smb_action", <<"zeek/smb_files/action", "zeek.smb_files.action">>),
   Str("smb_path", <<"zeek/smb_files/name", "zeek.smb_files.name">>)})

Rdp == Zeek("rdp", To \union Ports \union
  {Str("rdp_cookie", <<"zeek/rdp/cookie", "zeek.rdp.cookie">>),
   Str("rdp_security_protocol", <<"zeek/rdp/security_protocol", "zeek.rdp.security_protocol">>)})

DceRpc ==
  LET endpoint == <<"zeek/dce_rpc/endpoint", "zeek.dce_rpc.endpoint">>
      operation == <<"zeek/dce_rpc/operation", "zeek.dce_rpc.operation">>
  IN Zeek("dce_rpc", To \union {Alone("file_path", endpoint, operation), Alone("file_path", operation, endpoint)})

Dhcp ==
  LET client == <<"zeek/dhcp/hostname", "zeek.dhcp.hostname">>
  IN WithoutAddress(Normaliser("dhcp", "info", <<"source/ip", "zeek/dhcp/client_addr", "zeek.dhcp.client_addr">>,
       {Str("hostname", client), Alone("hostname", <<"observer/hostname">>, client),
        Str("dst_ip", <<"zeek/dhcp/assigned_ip", "zeek.dhcp.assigned_ip">>)}))

DnsZeek == Zeek("dns_query", To \union Ports \union
  {Str(c, <<"dns/question/name", "zeek/dns/query", "zeek.dns.query">>) : c \in {"dns_query", "domain"}} \union
  {Str("dns_query_type", <<"dns/question/type", "zeek/dns/qtype_name">>),
   Str("dns_rcode", <<"dns/response_code", "zeek/dns/rcode_name">>)})

Software == Zeek("software", {Alone("process_name", <<"zeek/software/name", "zeek.software.name">>,
  <<"zeek/software/version", "zeek.software.version">>)})

KnownHost == [Zeek("known_host", {}) EXCEPT !.address = SourceIp \o <<"zeek.known_hosts.host", "zeek/known_hosts/host">>]

KnownService == [Zeek("known_service",
  {Num("dst_port", <<"zeek/known_services/port_num", "zeek.known_services.port_num">>),
   Str("network_protocol", <<"zeek/known_services/port_proto">>)}) EXCEPT !.address = SourceIp \o <<"zeek/known_services/host">>]

Sip == Zeek("sip", To \union {Str("http_method", <<"zeek/sip/method", "zeek.sip.method">>), Str("url", <<"zeek/sip/uri", "zeek.sip.uri">>)})

Ftp == Zeek("ftp", To \union {Str("command_line", <<"zeek/ftp/command", "zeek.ftp.command">>),
  Num("http_status_code", <<"zeek/ftp/reply_code", "zeek.ftp.reply_code">>)})

Smtp == Zeek("smtp", To \union {Str("username", <<"zeek/smtp/from", "zeek.smtp.from">>),
  Str("tags", <<"zeek/smtp/to", "zeek.smtp.to">>), Str("file_path", <<"zeek/smtp/subject", "zeek.smtp.subject">>)})

Socks == Zeek("socks", To)

Tunnel == Zeek("tunnel", To \union {Str("network_protocol", <<"zeek/tunnel/type", "zeek.tunnel.type">>)})

\* A packed binary is of high severity.
Pe == [Zeek("pe", {Str("tags", <<"zeek/pe/compile_ts", "zeek.pe.compile_ts">>)}) EXCEPT !.severity = "zeek/pe/is_packed"]

-----------------------------------------------------------------------------
\* The datasets of one poll in their order, each with its normaliser.  Tls,
\* Dns and Fileinfo belong to none any more.
DispatchTable == <<
  <<"alert", Alert>>, <<"syslog", Syslog>>, <<"anomaly", Anomaly>>, <<"conn", Conn>>, <<"weird", Weird>>,
  <<"http", Http>>, <<"tls", Ssl>>, <<"x509", X509>>, <<"fileinfo", Files>>, <<"notice", Notice>>,
  <<"kerberos", Kerberos>>, <<"ntlm", Ntlm>>, <<"ssh", Ssh>>, <<"smb_mapping", SmbMapping>>, <<"smb_files", SmbFiles>>,
  <<"rdp", Rdp>>, <<"dce_rpc", DceRpc>>, <<"dhcp", Dhcp>>, <<"dns", DnsZeek>>, <<"software", Software>>,
  <<"known_hosts", KnownHost>>, <<"known_services", KnownService>>, <<"sip", Sip>>, <<"ftp", Ftp>>, <<"smtp", Smtp>>,
  <<"socks", Socks>>, <<"tunnel", Tunnel>>, <<"pe", Pe>> >>

-----------------------------------------------------------------------------
\* `a or b or c`: the first of the keys that the document has.
Present(doc, from) == {i \in DOMAIN from : from[i] \in DOMAIN doc}
Value(doc, from) == doc[from[CHOOSE i \in Present(doc, from) : \A j \in Present(doc, from) : i <= j]]

\* int() and float() take numerals only; a column of text must be given text,
\* or NormalizedEvent is refused.
Raises(doc, column) ==
  /\ Present(doc, column.from) # {} /\ Present(doc, column.other) = {}
  /\ \/ column.how = "num" /\ Value(doc, column.from) # "number"
     \/ column.how = "raw" /\ Value(doc, column.from) # "text"

\* What becomes of a document: dropped, an exception, or an event.
Outcome(n, doc) ==
  IF n.required /\ Present(doc, n.address) = {} THEN "dropped"
  ELSE IF \E c \in n.columns : Raises(doc, c) THEN "raised"
  ELSE "event"

\* The keys a normaliser looks at.
Keys(n) == {n.address[i] : i \in DOMAIN n.address} \union UNION {{c.from[i] : i \in DOMAIN c.from} : c \in n.columns}
==============================================================================
