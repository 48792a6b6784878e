\* The adapters whose callers share a handle (README, section 5, has the others).
SPECIFICATION Spec
CONSTANTS
    Queries = {1, 2, 3, 4}
    Adapters = {1, 2}
    Conns = {1, 2, 3, 4}
    Kinds = {"sqlite", "pool", "clickhouse", "duckdb"}
    Env = {"failures"}
INVARIANTS OneAdapter TornDown
