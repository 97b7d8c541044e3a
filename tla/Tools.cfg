SPECIFICATION Spec
INVARIANTS TextToolsExact ToolsConfined
PROPERTIES MoveLosesNothing ToolsSettle
CHECK_DEADLOCK FALSE
