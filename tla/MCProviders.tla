---------------------------- MODULE MCProviders ----------------------------
(* A small instance for TLC: every provider, two values, one further line.  *)
EXTENDS Providers, TLC

CONSTANTS c1, c2, c3, v1, v2

MCCall == {c1, c2, c3}
MCValue == {v1, v2}
MCLine == {"telecom"}
MCProvider == {"cloudflare", "dnspod", "aliyun", "westcn", "huaweicloud", "jdcloud", "xinnet",
               "dnsla", "volcengine", "baidu"}
MCSymmetry == Permutations(MCCall) \cup Permutations(MCValue)
============================================================================
