\* Twelve bytes from elsewhere, or the encoding of an integer field.
CONSTANTS
    BytesAt <- SomeBytes
    Fields <- SomeFields
    NoField = NoField
SPECIFICATION Spec
INVARIANTS TypeOK DecodersAgree AcceptsWhatFits SkipsTheSame FieldRoundTrip BoundedReading
CHECK_DEADLOCK FALSE
