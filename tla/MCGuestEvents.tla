---- MODULE MCGuestEvents ----
(* A request with a body in pieces before another, and one that is cut off, to  *)
(* guests with all the functions, with some and with few.                      *)
EXTENDS GuestEvents

MCStreams ==
    {<<"on_message_begin", "on_method", "on_method", "on_method_complete", "on_url", "on_url",
       "on_url_complete", "on_headers_complete", "on_body", "on_body", "on_message_complete",
       "on_message_begin", "on_method">>,
     <<"on_message_begin", "on_method", "on_header_field_complete", "on_header_value",
       "on_header_value", "on_header_value", "on_header_value_complete">>}
MCExports ==
    {Spans \cup Marks \cup {"on_error"} \cup Json!Tokens,
     {"on_url", "on_body", "on_header_value", "on_message_complete", "push_string", "push_number",
      "array_start", "array_end"},
     {"on_message_begin", "on_headers_complete", "on_body", "on_error", "object_start", "push_null"}}
MCDocs ==
    {<<"push_string">>, <<"push_number">>,
     <<"array_start", "push_number", "push_null", "array_end">>,
     <<"object_start", "object_field_start", "array_start", "array_end",
       "object_field_start", "push_bool", "object_end">>}
====
