SPECIFICATION Spec
INVARIANT SummaryIsReadable
