---- MODULE MCMcpManager ----
EXTENDS McpManager

\* Two servers; s1 offers two tools, s2 one whose qualified name is that of a tool of s1.
MCOrder == <<"s1", "s2">>

MCToolsOf == [s \in {"s1", "s2"} |-> IF s = "s1" THEN {"read", "write"} ELSE {"read_"}]

MCQualified == [t \in {"s1", "s2"} \X {"read", "write", "read_"} |->
                  IF t = <<"s1", "write">> THEN "mcp__s1__write" ELSE "mcp__s__read"]
====
